---- MODULE Spec2Model ----
(***************************************************************************)
(* Model of the agent loop of exa-code-cli (class Agent, core/agent.ts):   *)
(* the conversation log, the chat loop with its suspension points (the     *)
(* backend call, the error / max-iterations / approval callbacks and the   *)
(* tool execution), and the operations the host may call between two       *)
(* suspension points (interrupt, clearHistory, setSessionAutoApprove).     *)
(*                                                                         *)
(* JavaScript runs one task at a time: the code between two awaits is one  *)
(* atomic step.  pc names the await at which the run is suspended; the     *)
(* values "loopTop" and "toolLoop" are positions inside one synchronous    *)
(* stretch, where no host operation can interleave.                        *)
(***************************************************************************)
EXTENDS Naturals, Sequences, FiniteSets, TLC

VARIABLES
    messages,                \* Agent.messages: the conversation log
    isInterrupted,           \* Agent.isInterrupted
    currentAbortController,  \* Agent.currentAbortController: "null" | "live" | "aborted"
    sessionAutoApprove,      \* Agent.sessionAutoApprove
    requestCount,            \* Agent.requestCount
    provider,                \* Agent.provider: "null" or the backend type it was built for
    currentProviderType,     \* Agent.currentProviderType
    model,                   \* Agent.model
    callbacks,               \* the callbacks wired by setToolCallbacks
    readFiles,               \* validators.ts readFiles: resolved paths read in this session
    pc,                      \* where the run of chat() is suspended ("idle": no run)
    iteration,               \* chat(): let iteration
    toolCalls,               \* chat(): response.toolCalls of the current iteration
    idx,                     \* chat(): position of the for-loop over toolCalls
    canAutoApprove,          \* executeToolCall(): const canAutoApprove of the current call
    approvalResult,          \* executeToolCall(): approvalResult of the current call
    nRuns,                   \* history: chat() calls so far
    nInterrupts,             \* history: interrupt() calls so far
    runInterrupts,           \* history: interrupt() calls during the current run
    finalMessages,           \* history: onFinalMessage emissions of this run
    outcome,                 \* history: how the last run ended
    lastAnswer,              \* history: what the last backend call or tool execution answered
    runRequests,             \* history: backend calls of this run
    nContinues,              \* history: 'continue' answers of onMaxIterations in this run
    pc2,                     \* where a second, overlapping call of chat() is suspended
    instances,               \* ProviderFactory.instances: the backend types created so far
    initialized,             \* the backend types whose instance holds a client and a config
    configDefaultProvider,   \* ConfigManager: the default backend type on file
    configDefaultModel,      \* ConfigManager: the default model on file, per backend type
    swPc,                    \* where switchProvider() is suspended ("idle": no switch)
    previousProviderType,    \* switchProvider(): const previousProviderType
    previousModel,           \* switchProvider(): const previousModel
    nSwitches,               \* history: switchProvider() calls so far
    before,                  \* history: backend, type and model when the last switch began,
                             \* and the backend type that switch was called with
    requestedFailed,         \* history: the requested backend failed to initialize
    swOutcome,               \* history: how the last switchProvider() ended
    requestLimit,            \* exploration: backend calls after which no more are drawn
    crPc,                    \* where Agent.create() is suspended ("returned": the Agent is in use)
    configured,              \* history: the backend type on file when the Agent was built
    nFailed,                 \* history: initializations that failed during Agent.create()
    nFallbacks,              \* history: fallback initializations begun during Agent.create()
    mcpServerName,           \* getAllTools(): serverName of the tool a connected server offers
    mcpToolName,             \* getAllTools(): tool.name of that tool
    schemaName,              \* getMCPToolSchemas(): the name the tool is offered under
    parsedName,              \* executeMCPTool(): const parsedName
    toolNotes,               \* history: the onToolStart/onToolEnd notifications of the
                             \* tool call executeToolCall() was last called for
    search,                  \* a call of webSearch() and its environment
    limiter,                 \* web-utils: the rate limiter and the clock
    settings,                \* ConfigManager: the config file and the method calls
    handler,                 \* MCPErrorHandler and the calls of attemptReconnection()
    manager                  \* MCPClientManager, its configuration and its calls

agentVars == <<messages, isInterrupted, currentAbortController, sessionAutoApprove,
               requestCount, callbacks, readFiles>>
provVars  == <<provider, currentProviderType, model>>
runVars   == <<pc, iteration, toolCalls, idx, canAutoApprove, approvalResult>>
runHist   == <<lastAnswer, runRequests, nContinues>>
histVars  == <<nRuns, nInterrupts, runInterrupts, finalMessages, outcome, runHist>>
counters  == <<nRuns, nInterrupts, runInterrupts, finalMessages>>
\* what a run of chat() and the synchronous operations of the host leave alone
factoryVars == <<instances, initialized>>
configVars == <<configDefaultProvider, configDefaultModel>>
switchVars == <<swPc, previousProviderType, previousModel, nSwitches, before,
                requestedFailed, swOutcome>>
createVars == <<crPc, configured, nFailed, nFallbacks>>
mcpVars == <<mcpServerName, mcpToolName, schemaName, parsedName>>
\* what a run of chat() leaves alone, but for its notifications
restVars  == <<provVars, factoryVars, configVars, switchVars, pc2, requestLimit, createVars>>
\* the state outside the Agent
outsideVars == <<mcpVars, search, limiter, settings, handler, manager>>
\* what each part outside the Agent leaves alone
notMcpVars == <<search, limiter, settings, handler, manager>>
notSearchVars == <<mcpVars, limiter, settings, handler, manager>>
notRateVars == <<mcpVars, search, settings, handler, manager>>
notSettingsVars == <<mcpVars, search, limiter, handler, manager>>
notReconnectVars == <<mcpVars, search, limiter, settings, manager>>
notRefreshVars == <<mcpVars, search, limiter, settings, handler>>
otherVars == <<restVars, outsideVars, toolNotes>>
vars      == <<agentVars, runVars, histVars, otherVars>>
\* the Agent, which the modules outside it leave alone
agentAll  == <<agentVars, runVars, histVars, restVars, toolNotes>>

----------------------------------------------------------------------------
(* The fields of the state outside the Agent *)

\* webSearch(): EXA_SEARCH_FALLBACK_STRATEGY, lower case
fallbackStrategy == search.fallbackStrategy
\* webSearch(): isGoogleConfigured()
googleOK == search.googleOK
\* webSearch(): isBingConfigured()
bingOK == search.bingOK
\* webSearch(): the argument preferredProvider
preferredProvider == search.preferredProvider
\* where webSearch() is suspended ("idle": not called)
sePc == search.sePc
\* webSearch(): let providers
providers == search.providers
\* webSearch(): position of the for-loop over providers
providerIdx == search.providerIdx
\* webSearch(): const attempts
attempts == search.attempts
\* webSearch(): let zeroResultSuccess
zeroResultSuccess == search.zeroResultSuccess
\* history: the providers whose search function was called
called == search.called
\* what webSearch() has returned
searchResponse == search.searchResponse

\* Date.now(), milliseconds
now == limiter.now
\* web-utils: const rateLimitMap
rateLimitMap == limiter.rateLimitMap
\* what checkRateLimit() returned last
rateResult == limiter.rateResult
\* exploration: times the clock has advanced
nTicks == limiter.nTicks
\* history: per key, the requests allowed less than a minute
\* after the first request of its window
withinMinute == limiter.withinMinute
\* history: per key, the requests allowed exactly a minute
\* after the first request of its window
atMinute == limiter.atMinute

\* ConfigManager: the file at configPath
configFile == settings.configFile
\* history: the ConfigManager method called last
cfgOp == settings.cfgOp
\* exploration: ConfigManager methods called
nCfgOps == settings.nCfgOps

\* MCPErrorHandler.retryAttempts
retryAttempts == handler.retryAttempts
\* the calls of attemptReconnection(): of each where it is
\* suspended, its serverName, its const currentAttempts and
\* what it returned
rcCalls == handler.rcCalls
\* history: per server, the calls of reconnectToServer() since
\* its retry counter was last reset
attemptsMade == handler.attemptsMade
\* history: two calls of attemptReconnection() were in flight
overlapped == handler.overlapped

\* what configManager.getMCPServers() returns
configuredServers == manager.configuredServers
\* MCPClientManager.clients
clients == manager.clients
\* where refreshServers() is suspended
rfPc == manager.rfPc
\* refreshServers(): const currentServers
currentServers == manager.currentServers
\* refreshServers(): const connectedServerNames
connectedServerNames == manager.connectedServerNames
\* refreshServers(): position in its two loops
rfPos == manager.rfPos
\* history: the configuration changed during refreshServers()
rfChanged == manager.rfChanged
\* history: initializeClients() was suspended during
\* refreshServers()
rfOverlapped == manager.rfOverlapped
\* where initializeClients() is suspended
inPc == manager.inPc
\* initializeClients(): const servers
initServers == manager.initServers
\* initializeClients(): position in its loop
inPos == manager.inPos
\* exploration: calls of refreshServers()
nRefreshes == manager.nRefreshes
\* exploration: changes of the configuration
nConfigChanges == manager.nConfigChanges

\* An action replaces fields of one of these records: fields @@ record is the
\* record with the fields named on the left replaced.

----------------------------------------------------------------------------
(* Bounds of the model *)

\* chat(): const maxIterations = 50, scaled down so that the limit is reached
maxIterations == 1
\* chat() calls explored
MaxRuns == 1
\* backend calls explored, over all runs
MaxRequests == 1
\* tool calls in one backend response
MaxCalls == 1
\* interrupt() calls explored
MaxInterrupts == 2
\* switchProvider() calls explored
MaxSwitches == 2
\* backend calls explored when a run is followed alone, long enough for a
\* retry and for a continue after the iteration limit
MaxLoopRequests == 2
\* tool calls in one response when the for-loop over them is followed alone
MaxToolCalls == 2
\* chat(), interrupt() and switchProvider() calls explored, all together,
\* when the operations of the host are mixed
MaxOps == 3
\* Turns after the system prompt in the logs clearHistory() is applied to
MaxLogLen == 3
\* characters of an MCP server name and of a tool name
MaxNameLen == 3
\* requests counted in one window that are explored, in all and for one
\* domain, and advances of the clock
MaxCount == 11
MaxDomainCount == 4
MaxTicks == 1
\* ConfigManager methods explored
MaxConfigOps == 3
\* calls of refreshServers() and changes of the configuration explored
MaxRefreshes == 2
MaxConfigChanges == 1
\* calls of attemptReconnection() explored
MaxInvocations == 5
\* MCPErrorHandler.maxRetries
maxRetries == 3
\* RATE_LIMIT and oneMinute of web-utils
MAX_REQUESTS_PER_MINUTE == 10
MAX_REQUESTS_PER_DOMAIN_PER_MINUTE == 3
oneMinute == 60000

----------------------------------------------------------------------------
(* Turns of the log *)

NoId == <<>>

Turn(r, c, tcs, id) == [role |-> r, content |-> c, tool_calls |-> tcs, tool_call_id |-> id]

\* the system prompt built by buildDefaultSystemMessage ('... coding assistant ...')
SystemPrompt == Turn("system", "coding assistant", <<>>, NoId)
\* loadProjectContext: the Turn pushed when a context file exists
ProjectContext == Turn("system", "Project context loaded", <<>>, NoId)
UserTurn == Turn("user", "input", <<>>, NoId)
InterruptNote == Turn("system", "User has interrupted the request.", <<>>, NoId)
RejectNote == Turn("system", "The user rejected the tool execution.", <<>>, NoId)
NoRetryNote == Turn("system", "Request failed. User chose not to retry.", <<>>, NoId)
ApiErrorNote == Turn("system", "Previous API request failed.", <<>>, NoId)
FinalTurn == Turn("assistant", "final", <<>>, NoId)
AssistantTurn(calls) == Turn("assistant", "", [k \in 1..Len(calls) |-> calls[k].id], NoId)
ToolTurn(id, result) == Turn("tool", result, <<>>, id)

----------------------------------------------------------------------------
(* Tools *)

NoPath == ""

\* path.resolve: two spellings of one file resolve to the same absolute path
resolve(p) == IF p = "./a" THEN "a" ELSE p

\* the tool classes of tool-schemas.ts, which is not part of the sources at hand
DANGEROUS_TOOLS == {"delete_file", "execute_command"}
APPROVAL_REQUIRED_TOOLS == {"create_file", "edit_file", "web_fetch"}

\* what a backend may ask for: [name, path, parses]
CallKinds ==
    { [name |-> "read_file", path |-> "a", parses |-> TRUE],
      [name |-> "edit_file", path |-> "./a", parses |-> TRUE],
      [name |-> "edit_file", path |-> "a", parses |-> FALSE],
      [name |-> "create_file", path |-> "a", parses |-> TRUE],
      [name |-> "repo_browser.delete_file", path |-> "a", parses |-> TRUE] }

CallSeqs == UNION { [1..n -> CallKinds] : n \in 1..MaxCalls }

\* the k-th call of the response to request number n
WithIds(n, kinds) ==
    [k \in 1..Len(kinds) |->
        [id |-> <<n, k>>, name |-> kinds[k].name, path |-> kinds[k].path,
         parses |-> kinds[k].parses]]

\* results of a tool call, as the content of its tool Turn
RejectedResults == {"canceled by user", "interrupted by user"}
userRejected(result) == result \in RejectedResults

\* executeToolCall: strip the 'repo_browser.' prefix
toolNameOf(call) ==
    IF call.name = "repo_browser.delete_file" THEN "delete_file" ELSE call.name

\* validators.ts: let readFiles = null, until setReadFilesTracker installs a set
NoTracker == {"<null>"}
\* a check that lets every edit through
validateReadBeforeEdit_Open(filePath) == TRUE
\* validators.ts validateReadBeforeEdit
validateReadBeforeEdit(filePath) ==
    IF readFiles = NoTracker THEN TRUE ELSE resolve(filePath) \in readFiles

\* executeToolCall(), lines 664-669
isDangerousTool(call) == toolNameOf(call) \in DANGEROUS_TOOLS
requiresApprovalTool(call) == toolNameOf(call) \in APPROVAL_REQUIRED_TOOLS
needsApprovalTool(call) == isDangerousTool(call) \/ requiresApprovalTool(call)
\* a session flag that covers every gated tool
canAutoApproveTool_AnyClass(call) == sessionAutoApprove
canAutoApproveTool(call) ==
    requiresApprovalTool(call) /\ ~isDangerousTool(call) /\ sessionAutoApprove

----------------------------------------------------------------------------
(* Backends *)

\* factory.ts ProviderType: the backend types explored
ProviderTypes == {"groq", "openai"}
\* models.ts DEFAULT_MODELS ("default" stands for the default model of groq)
DEFAULT_MODELS == [t \in ProviderTypes |-> IF t = "groq" THEN "default" ELSE "o3-mini"]
\* the models explored: the two defaults and one chosen by the user
Models == {"default", "o3-mini", "custom"}
\* no model on file, no model argument
NoModel == ""
\* the displayName of the backend classes
displayName == [t \in ProviderTypes |-> IF t = "groq" THEN "Groq Cloud" ELSE "OpenAI API"]
\* no switch yet
NoBackend == [provider |-> "null", type |-> "none", model |-> NoModel, requested |-> "none"]

\* buildDefaultSystemMessage(): the prompt names the model and the backend
PromptText(m, name) ==
    CASE m = "default" /\ name = "groq" -> "coding assistant: default on groq"
      [] m = "default" /\ name = "openai" -> "coding assistant: default on openai"
      [] m = "default" /\ name = "Groq Cloud" -> "coding assistant: default on Groq Cloud"
      [] m = "default" /\ name = "OpenAI API" -> "coding assistant: default on OpenAI API"
      [] m = "o3-mini" /\ name = "groq" -> "coding assistant: o3-mini on groq"
      [] m = "o3-mini" /\ name = "openai" -> "coding assistant: o3-mini on openai"
      [] m = "o3-mini" /\ name = "Groq Cloud" -> "coding assistant: o3-mini on Groq Cloud"
      [] m = "o3-mini" /\ name = "OpenAI API" -> "coding assistant: o3-mini on OpenAI API"
      [] m = "custom" /\ name = "groq" -> "coding assistant: custom on groq"
      [] m = "custom" /\ name = "openai" -> "coding assistant: custom on openai"
      [] m = "custom" /\ name = "Groq Cloud" -> "coding assistant: custom on Groq Cloud"
      [] m = "custom" /\ name = "OpenAI API" -> "coding assistant: custom on OpenAI API"

\* buildDefaultSystemMessage(), line 268: providerName
providerName == IF provider = "null" THEN currentProviderType ELSE displayName[provider]

\* msg.role === 'system' && msg.content.includes('coding assistant')
IsDefaultPrompt(msg) ==
    /\ msg.role = "system"
    /\ \/ msg.content = "coding assistant"
       \/ \E m \in Models, t \in ProviderTypes :
             msg.content \in {PromptText(m, t), PromptText(m, displayName[t])}

\* a rewrite that replaces the content of every system Turn
WithPrompt_EverySystemTurn(log, text) ==
    [i \in 1..Len(log) |-> IF log[i].role = "system" THEN [log[i] EXCEPT !.content = text]
                           ELSE log[i]]
\* the log with the content of its first default prompt replaced (findIndex)
WithPrompt(log, text) ==
    LET found == { i \in 1..Len(log) : IsDefaultPrompt(log[i]) }
    IN  IF found = {} THEN log
        ELSE LET first == CHOOSE i \in found : \A k \in found : i <= k
             IN  [log EXCEPT ![first].content = text]

----------------------------------------------------------------------------
(* Initial state: an Agent constructed by Agent.create, its provider        *)
(* initialized, its callbacks wired, the read tracker installed by the     *)
(* tools module                                                            *)

CallbackNames ==
    {"onToolApproval", "onError", "onMaxIterations", "onFinalMessage", "onToolStart", "onToolEnd"}
\* the wirings explored: a host that wires every callback, and one that wires none
Wirings == {CallbackNames, {}}

\* the log the constructor leaves: the prompt, and the project context when a
\* context file exists
ConstructedLogs == {<<SystemPrompt>>, <<SystemPrompt, ProjectContext>>}

\* the fields of an Agent no operation has been called on, as their
\* initializers leave them (lines 19-38), and the locals of its operations
Unused(limit) ==
    /\ isInterrupted = FALSE
    /\ currentAbortController = "null"
    /\ sessionAutoApprove = FALSE
    /\ requestCount = 0
    /\ readFiles = {}
    /\ pc = "idle"
    /\ iteration = 0
    /\ toolCalls = <<>>
    /\ idx = 0
    /\ canAutoApprove = FALSE
    /\ approvalResult = "none"
    /\ nRuns = 0
    /\ nInterrupts = 0
    /\ runInterrupts = 0
    /\ finalMessages = 0
    /\ outcome = "none"
    /\ lastAnswer = "none"
    /\ runRequests = 0
    /\ nContinues = 0
    /\ pc2 = "idle"
    /\ requestLimit = limit
    /\ swPc = "idle"
    /\ previousProviderType = "none"
    /\ previousModel = NoModel
    /\ nSwitches = 0
    /\ before = NoBackend
    /\ requestedFailed = FALSE
    /\ swOutcome = "none"
    /\ toolNotes = <<>>

\* names are sequences of characters
NoName == <<>>
\* parseMCPToolName(): return null
NoParse == [serverName |-> NoName, toolName |-> NoName, isNull |-> TRUE]
\* no MCP server is connected
NoMCP ==
    /\ mcpServerName = NoName
    /\ mcpToolName = NoName
    /\ schemaName = NoName
    /\ parsedName = NoParse

\* webSearch(): no response
NoResponse == [provider |-> "none"]
\* webSearch() was not called, in this mode and with these keys configured
SearchEnvironment(strategy, google, bing) ==
    [fallbackStrategy |-> strategy, googleOK |-> google, bingOK |-> bing,
     preferredProvider |-> "undefined", sePc |-> "idle", providers |-> <<>>,
     providerIdx |-> 0, attempts |-> <<>>, zeroResultSuccess |-> NoResponse,
     called |-> <<>>, searchResponse |-> NoResponse]
NoSearch == search = SearchEnvironment("cascade", FALSE, FALSE)

\* the Agent built with this log, explored up to limit backend calls
ConstructedAgent(log, limit) ==
    /\ messages = log
    /\ provider = "groq"
    /\ currentProviderType = "groq"
    /\ model = "default"
    /\ callbacks \in Wirings
    /\ instances = {"groq"}
    /\ initialized = {"groq"}
    /\ configDefaultProvider = "groq"
    /\ configDefaultModel = [t \in ProviderTypes |-> NoModel]
    /\ crPc = "returned"
    /\ configured = "groq"
    /\ nFailed = 0
    /\ nFallbacks = 0
    /\ Unused(limit)

\* a Map, or an object used as one: a function of the keys it has
EmptyMap == [k \in {} |-> "undefined"]
MapGet(map, key, undefined) == IF key \in DOMAIN map THEN map[key] ELSE undefined
MapSet(map, key, value) ==
    [k \in DOMAIN map \cup {key} |-> IF k = key THEN value ELSE map[k]]
MapDelete(map, keys) == [k \in DOMAIN map \ keys |-> map[k]]

\* the keys of rateLimitMap: 'global' and 'domain:<hostname>'
Domains == {"a.example", "b.example", "c.example", "d.example"}
RateKeys == {"global"} \cup Domains
\* rateLimitMap.get(key) === undefined
NoEntry == [count |-> 0, firstRequest |-> 0, lastRequest |-> 0]
\* no rate-limit check was made: the module was loaded at time 0
NoRate ==
    limiter = [now |-> 0, rateLimitMap |-> EmptyMap, rateResult |-> "none", nTicks |-> 0,
               withinMinute |-> EmptyMap, atMinute |-> EmptyMap]

\* the names of MCP servers, and what a server of the config file holds:
\* the fields of MCPServerConfig (transport and command stand for the fields
\* that are copied, enabled is optional)
ServerNames == {"alpha", "beta"}
ServerConfigs == [transport : {"stdio", "http"}, enabled : {"unset", "true", "false"}]
\* servers[serverName] === undefined
NoServer == [transport |-> "undefined", enabled |-> "undefined"]
NoServers == [n \in ServerNames |-> NoServer]
\* the Config {}
EmptyConfig == [hasMcp |-> FALSE, hasTimeout |-> FALSE, hasServers |-> FALSE,
                servers |-> NoServers]
\* the file at configPath: not there, not JSON, or the JSON text of a Config
MissingFile == [state |-> "missing"]
CorruptFile == [state |-> "corrupt"]
FileOf(config) == [state |-> "json", config |-> config]
NoCfgOp == [op |-> "none"]
\* no ConfigManager method was called, and the file at configPath
SettingsOf(file) == [configFile |-> file, cfgOp |-> NoCfgOp, nCfgOps |-> 0]
\* there is no config file
NoSettings == settings = SettingsOf(MissingFile)

\* the servers attemptReconnection() is called for
ReconnectServers == {"server1", "server2"}
\* attemptReconnection() was never called
NoReconnect ==
    handler = [retryAttempts |-> EmptyMap, rcCalls |-> <<>>, attemptsMade |-> EmptyMap,
               overlapped |-> FALSE]

\* the servers of the configuration in the order of Object.entries(), what
\* the configuration holds for one (its config stands for the fields that
\* JSON.stringify compares), and what clients holds for one; NotConfigured
\* and NoClient stand for undefined
ServerOrder == <<"alpha", "beta">>
NotConfigured == [state |-> "absent", config |-> "none"]
ConfigEntries == {NotConfigured} \cup [state : {"enabled", "disabled"}, config : {"v1", "v2"}]
NoClient == [state |-> "none", config |-> "none"]
configOf(serversOfConfig, name) == MapGet(serversOfConfig, name, NotConfigured)
clientOf(cl, name) == MapGet(cl, name, NoClient)
\* the MCPClientManager after construction, with this configuration
NewManager(config) ==
    manager = [configuredServers |-> config, clients |-> EmptyMap, rfPc |-> "idle",
               currentServers |-> EmptyMap, connectedServerNames |-> {}, rfPos |-> 0,
               rfChanged |-> FALSE, rfOverlapped |-> FALSE, inPc |-> "notCalled",
               initServers |-> EmptyMap, inPos |-> 0, nRefreshes |-> 0,
               nConfigChanges |-> 0]
NoRefresh == NewManager(EmptyMap)

\* nothing outside the Agent is in use, but the part named
IdleExcept(part) ==
    /\ part = "mcp" \/ NoMCP
    /\ part = "search" \/ NoSearch
    /\ part = "rate" \/ NoRate
    /\ part = "settings" \/ NoSettings
    /\ part = "reconnect" \/ NoReconnect
    /\ part = "refresh" \/ NoRefresh
\* the same, with nothing outside the Agent in use
Constructed(log, limit) == ConstructedAgent(log, limit) /\ IdleExcept("agent")

\* the runs are explored on the Agent built where a context file exists
Init == Constructed(<<SystemPrompt, ProjectContext>>, MaxRequests)

----------------------------------------------------------------------------
(* The run of chat() *)

\* the awaits of chat() and executeToolCall(), where host operations interleave
Suspended == {"awaitChat", "awaitOnError", "awaitMaxIterations", "awaitApproval",
              "awaitTool"}

\* the exploration stops issuing backend calls after requestLimit of them: the
\* inputs that make the loop call the backend again are drawn only while
\* MayCallAgain holds
MayCallAgain == requestCount < requestLimit
\* the same for the inputs that end one pass of the loop: the next pass calls the
\* backend unless the iteration limit is reached
MayLoopAgain == MayCallAgain \/ iteration + 1 >= maxIterations

\* a return (or throw) of chat(): its locals are gone
Return(how) ==
    /\ pc' = "idle"
    /\ outcome' = how
    /\ iteration' = 0
    /\ toolCalls' = <<>>
    /\ idx' = 0
    /\ canAutoApprove' = FALSE
    /\ approvalResult' = "none"

\* a chat() that starts with the flag an earlier interrupt() has left
InterruptedAtStart_Kept == isInterrupted
\* chat(), line 410: this.isInterrupted = false
InterruptedAtStart == FALSE

\* chat(), lines 408-421: up to the first pass of the loop
ChatStart ==
    /\ pc = "idle"
    /\ nRuns < MaxRuns
    /\ MayCallAgain
    /\ nRuns' = nRuns + 1
    /\ runInterrupts' = 0
    /\ finalMessages' = 0
    /\ lastAnswer' = "none"
    /\ runRequests' = 0
    /\ nContinues' = 0
    /\ isInterrupted' = InterruptedAtStart
    /\ IF provider = "null"
       THEN /\ Return("raised")
            /\ UNCHANGED messages
       ELSE /\ messages' = Append(messages, UserTurn)
            /\ pc' = "loopTop"
            /\ iteration' = 0
            /\ outcome' = "running"
            /\ UNCHANGED <<toolCalls, idx, canAutoApprove, approvalResult>>
    /\ toolNotes' = <<>>
    /\ UNCHANGED <<currentAbortController, sessionAutoApprove, requestCount, callbacks,
                   readFiles, restVars, outsideVars, nInterrupts>>

\* chat(), lines 542-607: the catch block, for an error that is no abort error
\* and no authentication error
CatchRetryable ==
    IF "onError" \in callbacks
    THEN /\ pc' = "awaitOnError"
         /\ UNCHANGED <<messages, iteration, outcome>>
    ELSE /\ messages' = Append(messages, ApiErrorNote)
         /\ iteration' = iteration + 1
         /\ pc' = "loopTop"
         /\ UNCHANGED outcome

\* a loop that makes one more pass than the limit allows
WithinIterations_OneMore == iteration <= maxIterations
\* chat(), line 424: the condition of the inner loop
WithinIterations == iteration < maxIterations

\* chat(), lines 423-442 and 611-623: the head of the loops, up to the backend call
LoopTop ==
    /\ pc = "loopTop"
    /\ IF WithinIterations
       THEN IF isInterrupted
            THEN /\ currentAbortController' = "null"
                 /\ Return("returned")
                 /\ UNCHANGED <<messages, requestCount, runRequests>>
            ELSE /\ requestCount' = requestCount + 1
                 /\ runRequests' = runRequests + 1
                 /\ IF provider = "null"
                    THEN /\ currentAbortController' = "null"
                         /\ CatchRetryable
                         /\ UNCHANGED <<toolCalls, idx, canAutoApprove, approvalResult>>
                    ELSE /\ currentAbortController' = "live"
                         /\ pc' = "awaitChat"
                         /\ UNCHANGED <<messages, iteration, toolCalls, idx,
                                        canAutoApprove, approvalResult, outcome>>
       ELSE /\ IF "onMaxIterations" \in callbacks
               THEN /\ pc' = "awaitMaxIterations"
                    /\ UNCHANGED <<iteration, toolCalls, idx, canAutoApprove,
                                   approvalResult, outcome>>
               ELSE Return("returned")
            /\ UNCHANGED <<messages, requestCount, currentAbortController, runRequests>>
    /\ UNCHANGED <<isInterrupted, sessionAutoApprove, callbacks, readFiles, otherVars,
                   counters, lastAnswer, nContinues>>

\* the backend's answers to provider.chat()
Responses == {"text", "toolCalls", "abortError", "authError", "error"}

\* chat(), lines 546-550: the error is an abort error
isAbortError(response) == response = "abortError"

\* a classification that takes no error for an authentication error
is401Error_Never(response) == FALSE
\* chat(), lines 564-571: the error message names an authentication failure
is401Error(response) == response = "authError"

\* a final response that is handed to the host and kept out of the log
FinalResponse_Unrecorded ==
    /\ finalMessages' = IF "onFinalMessage" \in callbacks
                        THEN finalMessages + 1 ELSE finalMessages
    /\ UNCHANGED messages
    /\ currentAbortController' = "null"
    /\ Return("returned")
\* a final response after which the loop goes on
FinalResponse_GoesOn ==
    /\ finalMessages' = IF "onFinalMessage" \in callbacks
                        THEN finalMessages + 1 ELSE finalMessages
    /\ messages' = Append(messages, FinalTurn)
    /\ currentAbortController' = "null"
    /\ iteration' = iteration + 1
    /\ pc' = "loopTop"
    /\ UNCHANGED <<toolCalls, idx, canAutoApprove, approvalResult, outcome>>
\* chat(), lines 519-540: the response holds no tool call
FinalResponse ==
    /\ finalMessages' = IF "onFinalMessage" \in callbacks
                        THEN finalMessages + 1 ELSE finalMessages
    /\ messages' = Append(messages, FinalTurn)
    /\ currentAbortController' = "null"
    /\ Return("returned")

\* chat(), lines 442-607: provider.chat() settles
ChatSettles(response, kinds) ==
    /\ pc = "awaitChat"
    /\ response \in {"toolCalls", "error"} => MayLoopAgain
    /\ lastAnswer' = response
    /\ CASE response = "toolCalls" ->
              \* lines 469-485: the assistant Turn, then the for-loop
              /\ messages' = Append(messages, AssistantTurn(WithIds(requestCount, kinds)))
              /\ toolCalls' = WithIds(requestCount, kinds)
              /\ idx' = 1
              /\ pc' = "toolLoop"
              /\ UNCHANGED <<currentAbortController, iteration, canAutoApprove,
                             approvalResult, outcome, finalMessages>>
         [] response = "text" -> FinalResponse
         [] response \in {"abortError", "authError", "error"} ->
              \* lines 542-607: the catch block
              /\ currentAbortController' = "null"
              /\ IF isAbortError(response)
                 THEN /\ Return("returned")
                      /\ UNCHANGED messages
                 ELSE IF is401Error(response)
                 THEN /\ Return("raised")
                      /\ UNCHANGED messages
                 ELSE /\ CatchRetryable
                      /\ UNCHANGED <<toolCalls, idx, canAutoApprove, approvalResult>>
              /\ UNCHANGED finalMessages
    /\ UNCHANGED <<isInterrupted, sessionAutoApprove, requestCount, callbacks, readFiles,
                   otherVars, nRuns, nInterrupts, runInterrupts, runRequests, nContinues>>

\* the backend answers, its tool calls drawn from seqs
ChatRespondsWith(seqs) ==
    \/ \E kinds \in seqs : ChatSettles("toolCalls", kinds)
    \/ \E response \in Responses \ {"toolCalls"} : ChatSettles(response, <<>>)

ChatResponds == ChatRespondsWith(CallSeqs)

\* a retry that does not count as an iteration
Retry_NotCounted ==
    /\ pc' = "loopTop"
    /\ UNCHANGED <<messages, iteration, toolCalls, idx, canAutoApprove, approvalResult,
                   outcome>>
\* chat(), lines 584-587: the answer is to retry
Retry ==
    /\ iteration' = iteration + 1
    /\ pc' = "loopTop"
    /\ UNCHANGED <<messages, toolCalls, idx, canAutoApprove, approvalResult, outcome>>

\* a refusal to retry that leaves no trace in the log
NoRetry_Silent ==
    /\ Return("returned")
    /\ UNCHANGED messages
\* chat(), lines 588-595: the answer is not to retry
NoRetry ==
    /\ messages' = Append(messages, NoRetryNote)
    /\ Return("returned")

\* chat(), lines 583-595: onError answers
OnErrorAnswers(shouldRetry) ==
    /\ pc = "awaitOnError"
    /\ shouldRetry => MayLoopAgain
    /\ IF shouldRetry THEN Retry ELSE NoRetry
    /\ UNCHANGED <<isInterrupted, currentAbortController, sessionAutoApprove, requestCount,
                   callbacks, readFiles, otherVars, counters, runHist>>

\* chat(), lines 615-622: onMaxIterations answers
OnMaxIterationsAnswers(shouldContinue) ==
    /\ pc = "awaitMaxIterations"
    /\ shouldContinue => MayCallAgain
    /\ IF shouldContinue
       THEN /\ iteration' = 0
            /\ pc' = "loopTop"
            /\ nContinues' = nContinues + 1
            /\ UNCHANGED <<toolCalls, idx, canAutoApprove, approvalResult, outcome>>
       ELSE /\ Return("returned")
            /\ UNCHANGED nContinues
    /\ UNCHANGED <<agentVars, otherVars, counters, lastAnswer, runRequests>>

----------------------------------------------------------------------------
(* Tool calls: the for-loop of chat() and executeToolCall() *)

\* a loop that goes on to the next tool call without looking at the flag
InterruptedBeforeToolCall_Unchecked == FALSE
\* chat(), line 488: the check before each tool execution
InterruptedBeforeToolCall == isInterrupted
\* executeToolCall(), line 676: the check before the approval request
InterruptedBeforeApproval == isInterrupted
\* an approval answer that is acted upon without looking at the flag
InterruptedAfterApproval_Unchecked == FALSE
\* executeToolCall(), line 687: the check after the approval answer
InterruptedAfterApproval == isInterrupted

\* a default that lets the call through
DefaultApproval_Open == TRUE
\* executeToolCall(), line 696: approvalResult = { approved: false } when no
\* approval callback is wired
DefaultApproval == FALSE

\* executeToolCall(), lines 652-653: the read-before-edit precondition fails
FailsReadBeforeEdit(call) ==
    /\ toolNameOf(call) = "edit_file"
    /\ call.path # NoPath
    /\ ~validateReadBeforeEdit(call.path)

\* executeToolCall(), lines 646-649: the host is told that the tool starts
onToolStart(notes) ==
    IF "onToolStart" \in callbacks THEN Append(notes, "start") ELSE notes
\* executeToolCall(), lines 656, 679, 690, 704 and 717: the host is told that
\* the tool has ended
onToolEnd(notes) ==
    IF "onToolEnd" \in callbacks THEN Append(notes, "end") ELSE notes

\* a loop that goes to the next call before the tool Turn of this one is
\* appended
AfterToolCall_Deferred(result) ==
    IF userRejected(result)
    THEN /\ messages' = messages \o <<ToolTurn(toolCalls[idx].id, result), RejectNote>>
         /\ Return("returned")
    ELSE /\ idx' = idx + 1
         /\ pc' = "toolLoop"
         /\ canAutoApprove' = FALSE
         /\ approvalResult' = "none"
         /\ UNCHANGED <<messages, iteration, toolCalls, outcome>>

\* a loop that goes on after a rejected call
AfterToolCall_GoesOn(result) ==
    /\ messages' = Append(messages, ToolTurn(toolCalls[idx].id, result))
    /\ idx' = idx + 1
    /\ pc' = "toolLoop"
    /\ canAutoApprove' = FALSE
    /\ approvalResult' = "none"
    /\ UNCHANGED <<iteration, toolCalls, outcome>>

\* chat(), lines 496-512: the tool Turn of the current call, and what follows it
AfterToolCall(result) ==
    IF userRejected(result)
    THEN /\ messages' = messages \o <<ToolTurn(toolCalls[idx].id, result), RejectNote>>
         /\ Return("returned")
    ELSE /\ messages' = Append(messages, ToolTurn(toolCalls[idx].id, result))
         /\ idx' = idx + 1
         /\ pc' = "toolLoop"
         /\ canAutoApprove' = FALSE
         /\ approvalResult' = "none"
         /\ UNCHANGED <<iteration, toolCalls, outcome>>

\* chat(), lines 486-516, and executeToolCall(), lines 627-711: the next tool
\* call, up to its first await
ToolLoop ==
    /\ pc = "toolLoop"
    /\ IF idx > Len(toolCalls)
       THEN /\ iteration' = iteration + 1
            /\ pc' = "loopTop"
            /\ toolCalls' = <<>>
            /\ idx' = 0
            /\ UNCHANGED <<messages, currentAbortController, canAutoApprove,
                           approvalResult, outcome, toolNotes>>
       ELSE IF InterruptedBeforeToolCall
       THEN /\ currentAbortController' = "null"
            /\ Return("returned")
            /\ UNCHANGED <<messages, toolNotes>>
       ELSE LET call == toolCalls[idx] IN
            /\ UNCHANGED currentAbortController
            /\ IF ~call.parses
               THEN /\ AfterToolCall("arguments truncated")
                    /\ toolNotes' = <<>>
               ELSE IF FailsReadBeforeEdit(call)
               THEN /\ AfterToolCall("read before edit")
                    /\ toolNotes' = onToolEnd(onToolStart(<<>>))
               ELSE IF needsApprovalTool(call) /\ ~canAutoApproveTool(call)
               THEN IF "onToolApproval" \in callbacks
                    THEN IF InterruptedBeforeApproval
                         THEN /\ AfterToolCall("interrupted by user")
                              /\ toolNotes' = onToolEnd(onToolStart(<<>>))
                         ELSE /\ pc' = "awaitApproval"
                              /\ canAutoApprove' = FALSE
                              /\ approvalResult' = "pending"
                              /\ toolNotes' = onToolStart(<<>>)
                              /\ UNCHANGED <<messages, iteration, toolCalls, idx, outcome>>
                    ELSE IF DefaultApproval
                         THEN /\ pc' = "awaitTool"
                              /\ canAutoApprove' = FALSE
                              /\ approvalResult' = "default"
                              /\ toolNotes' = onToolStart(<<>>)
                              /\ UNCHANGED <<messages, iteration, toolCalls, idx, outcome>>
                         ELSE /\ AfterToolCall("canceled by user")
                              /\ toolNotes' = onToolEnd(onToolStart(<<>>))
               ELSE /\ pc' = "awaitTool"
                    /\ canAutoApprove' = canAutoApproveTool(call)
                    /\ approvalResult' = "none"
                    /\ toolNotes' = onToolStart(<<>>)
                    /\ UNCHANGED <<messages, iteration, toolCalls, idx, outcome>>
    /\ UNCHANGED <<isInterrupted, sessionAutoApprove, requestCount, callbacks, readFiles,
                   restVars, outsideVars, counters, runHist>>

\* executeToolCall(), lines 684-711: onToolApproval answers
ApprovalAnswers(approved, autoApproveSession) ==
    /\ pc = "awaitApproval"
    /\ LET call == toolCalls[idx] IN
       IF InterruptedAfterApproval
       THEN /\ AfterToolCall("interrupted by user")
            /\ toolNotes' = onToolEnd(toolNotes)
            /\ UNCHANGED sessionAutoApprove
       ELSE /\ sessionAutoApprove' =
                  IF autoApproveSession /\ requiresApprovalTool(call) /\ ~isDangerousTool(call)
                  THEN TRUE ELSE sessionAutoApprove
            /\ IF ~approved
               THEN /\ AfterToolCall("canceled by user")
                    /\ toolNotes' = onToolEnd(toolNotes)
               ELSE /\ pc' = "awaitTool"
                    /\ approvalResult' = "approved"
                    /\ UNCHANGED <<messages, iteration, toolCalls, idx, canAutoApprove, outcome,
                                   toolNotes>>
    /\ UNCHANGED <<isInterrupted, currentAbortController, requestCount, callbacks, readFiles,
                   restVars, outsideVars, counters, runHist>>

\* what executeTool() does: it returns a result, or raises
ToolOutcomes == {"success", "failure", "execution error"}

\* the tools module (not part of the sources at hand) records in the tracker
\* the resolved path of each file a read tool has read
readFilesAfter(call, result) ==
    IF toolNameOf(call) = "read_file" /\ result = "success"
    THEN readFiles \cup {resolve(call.path)}
    ELSE readFiles

\* an executeToolCall() that lets the errors of a tool through to chat()
CatchesToolError_Absent == FALSE
\* executeToolCall(), lines 628 and 723-726: the try around the whole body
\* turns an error raised by the tool into a result
CatchesToolError == TRUE

\* executeToolCall(), lines 713-726: executeTool() settles
ToolSettles(result) ==
    /\ pc = "awaitTool"
    /\ readFiles' = readFilesAfter(toolCalls[idx], result)
    /\ IF result = "execution error" /\ ~CatchesToolError
       THEN \* the error would reach the catch block of chat()
            /\ currentAbortController' = "null"
            /\ CatchRetryable
            /\ UNCHANGED <<toolCalls, idx, canAutoApprove, approvalResult>>
       ELSE /\ AfterToolCall(result)
            /\ UNCHANGED currentAbortController
    /\ toolNotes' = IF result = "execution error" THEN toolNotes ELSE onToolEnd(toolNotes)
    /\ lastAnswer' = result
    /\ UNCHANGED <<isInterrupted, sessionAutoApprove, requestCount,
                   callbacks, restVars, outsideVars, counters, runRequests, nContinues>>

----------------------------------------------------------------------------
(* Operations of the host, between two steps of a run *)

HostMayCall == pc \in Suspended \cup {"idle"}

\* interrupt(), lines 392-406
Interrupt ==
    /\ HostMayCall
    /\ nInterrupts < MaxInterrupts
    /\ nInterrupts' = nInterrupts + 1
    /\ runInterrupts' = IF pc = "idle" THEN runInterrupts ELSE runInterrupts + 1
    /\ isInterrupted' = TRUE
    /\ currentAbortController' =
          IF currentAbortController = "null" THEN "null" ELSE "aborted"
    /\ messages' = Append(messages, InterruptNote)
    /\ UNCHANGED <<sessionAutoApprove, requestCount, callbacks, readFiles, otherVars,
                   runVars, nRuns, finalMessages, outcome, runHist>>

\* clearHistory(), lines 370-373
IsSystemTurn(msg) == msg.role = "system"
\* a clearHistory() that empties the log
cleared_Emptied(log) == <<>>
\* a clearHistory() that drops the oldest Turn that is no system Turn, or
\* the oldest Turn of a log of system Turns
cleared_DropsOldest(log) ==
    LET others == { i \in 1..Len(log) : ~IsSystemTurn(log[i]) }
        oldest == IF others = {} THEN 1 ELSE CHOOSE i \in others : \A k \in others : i <= k
    IN  IF log = <<>> THEN log
        ELSE SubSeq(log, 1, oldest - 1) \o SubSeq(log, oldest + 1, Len(log))
\* line 372: this.messages.filter(msg => msg.role === 'system')
cleared(log) == SelectSeq(log, IsSystemTurn)
\* a clearHistory() that ends the session-wide approval
AutoApproveAfterClear_Reset == FALSE
\* clearHistory(), lines 370-373, assigns the log and nothing else
AutoApproveAfterClear == sessionAutoApprove
ClearHistory ==
    /\ HostMayCall
    /\ messages' = cleared(messages)
    /\ sessionAutoApprove' = AutoApproveAfterClear
    /\ UNCHANGED <<isInterrupted, currentAbortController, requestCount,
                   callbacks, readFiles, otherVars, runVars, histVars>>

\* setSessionAutoApprove(), lines 388-390
SetSessionAutoApprove(enabled) ==
    /\ HostMayCall
    /\ sessionAutoApprove' = enabled
    /\ UNCHANGED <<messages, isInterrupted, currentAbortController, requestCount,
                   callbacks, readFiles, otherVars, runVars, histVars>>

----------------------------------------------------------------------------
Next ==
    \/ ChatStart
    \/ LoopTop
    \/ ChatResponds
    \/ \E shouldRetry \in BOOLEAN : OnErrorAnswers(shouldRetry)
    \/ \E shouldContinue \in BOOLEAN : OnMaxIterationsAnswers(shouldContinue)
    \/ ToolLoop
    \/ \E approved \in BOOLEAN, autoApproveSession \in BOOLEAN :
          ApprovalAnswers(approved, autoApproveSession)
    \/ \E result \in ToolOutcomes : ToolSettles(result)
    \/ Interrupt
    \/ ClearHistory
    \/ \E enabled \in BOOLEAN : SetSessionAutoApprove(enabled)

Spec == Init /\ [][Next]_vars

\* one host that lets its runs proceed undisturbed: no interrupt, no
\* clearHistory and no change of settings between the steps of a run
InitLoop == Constructed(<<SystemPrompt, ProjectContext>>, MaxLoopRequests)

NextLoop ==
    \/ ChatStart
    \/ LoopTop
    \/ ChatResponds
    \/ \E shouldRetry \in BOOLEAN : OnErrorAnswers(shouldRetry)
    \/ \E shouldContinue \in BOOLEAN : OnMaxIterationsAnswers(shouldContinue)
    \/ ToolLoop
    \/ \E approved \in BOOLEAN, autoApproveSession \in BOOLEAN :
          ApprovalAnswers(approved, autoApproveSession)
    \/ \E result \in ToolOutcomes : ToolSettles(result)

SpecLoop == InitLoop /\ [][NextLoop]_vars

\* the for-loop over the tool calls of one response, followed alone through
\* longer responses, of calls that execute at once, calls that need an
\* approval and calls that fail before they execute
ToolCallKinds == { k \in CallKinds : k.name \in {"read_file", "create_file"} \/ ~k.parses }
ToolCallSeqs == UNION { [1..n -> ToolCallKinds] : n \in 1..MaxToolCalls }

NextTools ==
    \/ ChatStart
    \/ LoopTop
    \/ ChatRespondsWith(ToolCallSeqs)
    \/ \E shouldRetry \in BOOLEAN : OnErrorAnswers(shouldRetry)
    \/ \E shouldContinue \in BOOLEAN : OnMaxIterationsAnswers(shouldContinue)
    \/ ToolLoop
    \/ \E approved \in BOOLEAN, autoApproveSession \in BOOLEAN :
          ApprovalAnswers(approved, autoApproveSession)
    \/ \E result \in ToolOutcomes : ToolSettles(result)

SpecTools == Init /\ [][NextTools]_vars

----------------------------------------------------------------------------
(* switchProvider() and setModel().  The awaits of switchProvider() and of  *)
(* initializeCurrentProvider() are createProvider() and initialize(), for  *)
(* the requested backend, for the groq fallback and for the rollback.      *)

\* what a switch leaves alone
notSwitched == <<isInterrupted, currentAbortController, sessionAutoApprove, requestCount,
                 callbacks, readFiles, runVars, histVars, pc2, requestLimit, createVars,
                 outsideVars, toolNotes>>

\* a factory that builds a new instance on every call
createProviderMayFail_NoCache(type) == TRUE
\* factory.ts createProvider(): an instance already created is returned as it
\* is; only the creation of a new one can fail
createProviderMayFail(type) == type \notin instances

\* switchProvider(), lines 207-233, up to createProvider()
SwitchProvider(providerType, newModel) ==
    /\ HostMayCall
    /\ swPc = "idle"
    /\ nSwitches < MaxSwitches
    /\ nSwitches' = nSwitches + 1
    /\ previousProviderType' = currentProviderType
    /\ previousModel' = model
    /\ before' = [provider |-> provider, type |-> currentProviderType, model |-> model,
                  requested |-> providerType]
    /\ requestedFailed' = FALSE
    /\ swOutcome' = "running"
    /\ currentProviderType' = providerType
    /\ configDefaultProvider' = providerType
    /\ IF newModel # NoModel
       THEN /\ model' = newModel
            /\ configDefaultModel' = [configDefaultModel EXCEPT ![providerType] = newModel]
       ELSE /\ model' = IF configDefaultModel[providerType] # NoModel
                        THEN configDefaultModel[providerType]
                        ELSE DEFAULT_MODELS[providerType]
            /\ UNCHANGED configDefaultModel
    /\ provider' = "null"
    /\ swPc' = "awaitCreate"
    /\ UNCHANGED <<messages, factoryVars, notSwitched>>

\* switchProvider(), lines 245-255: the rollback, up to createProvider()
RollbackStarts ==
    /\ currentProviderType' = previousProviderType
    /\ model' = previousModel
    /\ configDefaultProvider' = previousProviderType
    /\ configDefaultModel' = [configDefaultModel EXCEPT ![previousProviderType] = previousModel]
    /\ swPc' = "awaitRollbackCreate"
    /\ UNCHANGED <<messages, previousProviderType, previousModel, swOutcome>>

\* initializeCurrentProvider(), lines 146-154: the fallback, up to createProvider()
FallbackStarts ==
    /\ currentProviderType' = "groq"
    /\ model' = DEFAULT_MODELS["groq"]
    /\ configDefaultProvider' = "groq"
    /\ configDefaultModel' = [configDefaultModel EXCEPT !["groq"] = DEFAULT_MODELS["groq"]]
    /\ swPc' = "awaitFallbackCreate"
    /\ UNCHANGED <<messages, previousProviderType, previousModel, swOutcome>>

\* initializeCurrentProvider(), lines 142-166: the catch block
InitializeFails ==
    IF currentProviderType # "groq" THEN FallbackStarts ELSE RollbackStarts

\* switchProvider(), lines 235-244: initializeCurrentProvider() has returned
SwitchReturns ==
    /\ messages' = WithPrompt(messages, PromptText(model, displayName[provider]))
    /\ swPc' = "idle"
    /\ swOutcome' = "returned"
    /\ previousProviderType' = "none"
    /\ previousModel' = NoModel
    /\ UNCHANGED <<currentProviderType, model, configVars>>

\* switchProvider(), line 263: throw error
SwitchRaises ==
    /\ swPc' = "idle"
    /\ swOutcome' = "raised"
    /\ previousProviderType' = "none"
    /\ previousModel' = NoModel
    /\ UNCHANGED <<messages, currentProviderType, model, configVars>>

\* stays at the next await
Awaits(where) ==
    /\ swPc' = where
    /\ UNCHANGED <<messages, currentProviderType, model, configVars, previousProviderType,
                   previousModel, swOutcome>>

\* initializeCurrentProvider(), lines 124-139: createProvider() settles, then
\* getProviderConfig()
CreateSettles(created, configOk) ==
    /\ swPc = "awaitCreate"
    /\ ~created => (createProviderMayFail(currentProviderType) /\ ~configOk)
    /\ IF created
       THEN /\ provider' = currentProviderType
            /\ instances' = instances \cup {currentProviderType}
       ELSE UNCHANGED <<provider, instances>>
    /\ IF created /\ configOk
       THEN /\ Awaits("awaitInitialize")
            /\ UNCHANGED requestedFailed
       ELSE /\ requestedFailed' = TRUE
            /\ InitializeFails
    /\ UNCHANGED <<initialized, nSwitches, before, notSwitched>>

\* initializeCurrentProvider(), lines 139-166: provider.initialize() settles
InitializeSettles(ok) ==
    /\ swPc = "awaitInitialize"
    /\ IF ok
       THEN /\ initialized' = initialized \cup {provider}
            /\ SwitchReturns
            /\ UNCHANGED requestedFailed
       ELSE /\ requestedFailed' = TRUE
            /\ InitializeFails
            /\ UNCHANGED initialized
    /\ UNCHANGED <<provider, instances, nSwitches, before, notSwitched>>

\* initializeCurrentProvider(), lines 154-162: createProvider('groq') settles
FallbackCreateSettles(created, configOk) ==
    /\ swPc = "awaitFallbackCreate"
    /\ ~created => (createProviderMayFail("groq") /\ ~configOk)
    /\ IF created
       THEN /\ provider' = "groq"
            /\ instances' = instances \cup {"groq"}
       ELSE UNCHANGED <<provider, instances>>
    /\ IF created /\ configOk
       THEN Awaits("awaitFallbackInitialize")
       ELSE RollbackStarts
    /\ UNCHANGED <<initialized, nSwitches, before, requestedFailed, notSwitched>>

\* initializeCurrentProvider(), lines 156-165: initialize() of groq settles
FallbackInitializeSettles(ok) ==
    /\ swPc = "awaitFallbackInitialize"
    /\ IF ok
       THEN /\ initialized' = initialized \cup {provider}
            /\ SwitchReturns
       ELSE /\ RollbackStarts
            /\ UNCHANGED initialized
    /\ UNCHANGED <<provider, instances, nSwitches, before, requestedFailed, notSwitched>>

\* switchProvider(), lines 255-263: createProvider(previousProviderType) settles
RollbackCreateSettles(created, configOk) ==
    /\ swPc = "awaitRollbackCreate"
    /\ ~created => (createProviderMayFail(previousProviderType) /\ ~configOk)
    /\ IF created
       THEN /\ provider' = previousProviderType
            /\ instances' = instances \cup {previousProviderType}
       ELSE UNCHANGED <<provider, instances>>
    /\ IF created /\ configOk
       THEN Awaits("awaitRollbackInitialize")
       ELSE SwitchRaises
    /\ UNCHANGED <<initialized, nSwitches, before, requestedFailed, notSwitched>>

\* switchProvider(), lines 257-263: initialize() of the previous backend settles
RollbackInitializeSettles(ok) ==
    /\ swPc = "awaitRollbackInitialize"
    /\ initialized' = IF ok THEN initialized \cup {provider} ELSE initialized
    /\ SwitchRaises
    /\ UNCHANGED <<provider, instances, nSwitches, before, requestedFailed, notSwitched>>

\* setModel(), lines 375-386, called while no switch is under way
SetModel(newModel) ==
    /\ HostMayCall
    /\ swPc = "idle"
    /\ model' = newModel
    /\ configDefaultModel' = [configDefaultModel EXCEPT ![currentProviderType] = newModel]
    /\ messages' = WithPrompt(messages, PromptText(newModel, providerName))
    /\ UNCHANGED <<provider, currentProviderType, factoryVars, configDefaultProvider,
                   switchVars, notSwitched>>

Switches ==
    \/ \E providerType \in ProviderTypes, newModel \in {NoModel, "custom"} :
          SwitchProvider(providerType, newModel)
    \/ \E created \in BOOLEAN, configOk \in BOOLEAN : CreateSettles(created, configOk)
    \/ \E ok \in BOOLEAN : InitializeSettles(ok)
    \/ \E created \in BOOLEAN, configOk \in BOOLEAN : FallbackCreateSettles(created, configOk)
    \/ \E ok \in BOOLEAN : FallbackInitializeSettles(ok)
    \/ \E created \in BOOLEAN, configOk \in BOOLEAN : RollbackCreateSettles(created, configOk)
    \/ \E ok \in BOOLEAN : RollbackInitializeSettles(ok)
    \/ \E newModel \in Models : SetModel(newModel)

\* the operations on the backend alone: they do not read what a run writes
InitSwitch == \E log \in ConstructedLogs : Constructed(log, MaxRequests)

SpecSwitch == InitSwitch /\ [][Switches]_vars

----------------------------------------------------------------------------
(* Agent.create(): the constructor, then initializeCurrentProvider() with  *)
(* its fallback to groq.  The environment is what the configuration file   *)
(* names as default backend and models, what the factory has cached, and   *)
(* whether a project context file can be read.                             *)

\* what Agent.create() leaves alone
notCreated == <<isInterrupted, currentAbortController, sessionAutoApprove, requestCount,
                callbacks, readFiles, runVars, histVars, pc2, requestLimit, switchVars,
                outsideVars, toolNotes>>

ContextFiles == {"absent", "readable", "unreadable"}

\* before new Agent(): no field is assigned yet
InitCreate ==
    /\ messages = <<>>
    /\ provider = "null"
    /\ currentProviderType = "none"
    /\ model = NoModel
    /\ callbacks = {}
    /\ instances \in SUBSET ProviderTypes
    /\ initialized \in SUBSET instances
    /\ configDefaultProvider \in ProviderTypes
    /\ configDefaultModel \in [ProviderTypes -> {NoModel, "custom"}]
    /\ crPc = "start"
    /\ configured = "none"
    /\ nFailed = 0
    /\ nFallbacks = 0
    /\ Unused(MaxRequests)
    /\ IdleExcept("agent")

\* a loadProjectContext() that puts the project context before the prompt
loadProjectContext_Prepends(log, contextFile) ==
    IF contextFile = "readable" THEN <<ProjectContext>> \o log ELSE log
\* loadProjectContext(), lines 70-90: a second system Turn when the context
\* file exists and can be read
loadProjectContext(log, contextFile) ==
    IF contextFile = "readable" THEN Append(log, ProjectContext) ELSE log

\* Agent.create(), lines 92-117, with the constructor, lines 40-68, up to
\* createProvider() in initializeCurrentProvider()
Construct(modelArg, contextFile) ==
    /\ crPc = "start"
    /\ configured' = configDefaultProvider
    /\ currentProviderType' = configDefaultProvider
    /\ model' = IF modelArg # NoModel THEN modelArg
                ELSE IF configDefaultModel[configDefaultProvider] # NoModel
                THEN configDefaultModel[configDefaultProvider]
                ELSE DEFAULT_MODELS[configDefaultProvider]
    /\ messages' = loadProjectContext(<<SystemPrompt>>, contextFile)
    /\ crPc' = "awaitCreate"
    /\ UNCHANGED <<provider, factoryVars, configVars, nFailed, nFallbacks, notCreated>>

\* a catch block that falls back whatever backend has failed
FailsAtCreate_AlwaysFallsBack ==
    /\ nFallbacks' = nFallbacks + 1
    /\ currentProviderType' = "groq"
    /\ model' = DEFAULT_MODELS["groq"]
    /\ configDefaultProvider' = "groq"
    /\ configDefaultModel' = [configDefaultModel EXCEPT !["groq"] = DEFAULT_MODELS["groq"]]
    /\ crPc' = "awaitFallbackCreate"
\* initializeCurrentProvider(), lines 142-154 and 165: the catch block, up to
\* the createProvider() of the fallback, or the throw
FailsAtCreate ==
    IF currentProviderType # "groq"
    THEN /\ nFallbacks' = nFallbacks + 1
         /\ currentProviderType' = "groq"
         /\ model' = DEFAULT_MODELS["groq"]
         /\ configDefaultProvider' = "groq"
         /\ configDefaultModel' = [configDefaultModel EXCEPT !["groq"] = DEFAULT_MODELS["groq"]]
         /\ crPc' = "awaitFallbackCreate"
    ELSE /\ crPc' = "raised"
         /\ UNCHANGED <<currentProviderType, model, configVars, nFallbacks>>

\* initializeCurrentProvider(), lines 124-139, called by Agent.create():
\* createProvider() settles, then getProviderConfig()
CreateSettlesAtCreate(created, configOk) ==
    /\ crPc = "awaitCreate"
    /\ ~created => (createProviderMayFail(currentProviderType) /\ ~configOk)
    /\ IF created
       THEN /\ provider' = currentProviderType
            /\ instances' = instances \cup {currentProviderType}
       ELSE UNCHANGED <<provider, instances>>
    /\ IF created /\ configOk
       THEN /\ crPc' = "awaitInitialize"
            /\ UNCHANGED <<currentProviderType, model, configVars, nFailed, nFallbacks>>
       ELSE /\ nFailed' = nFailed + 1
            /\ FailsAtCreate
    /\ UNCHANGED <<messages, initialized, configured, notCreated>>

\* initializeCurrentProvider(), lines 139-166: provider.initialize() settles
InitializeSettlesAtCreate(ok) ==
    /\ crPc = "awaitInitialize"
    /\ IF ok
       THEN /\ initialized' = initialized \cup {provider}
            /\ crPc' = "returned"
            /\ UNCHANGED <<currentProviderType, model, configVars, nFailed, nFallbacks>>
       ELSE /\ nFailed' = nFailed + 1
            /\ FailsAtCreate
            /\ UNCHANGED initialized
    /\ UNCHANGED <<messages, provider, instances, configured, notCreated>>

\* initializeCurrentProvider(), lines 154-165: createProvider('groq') settles
FallbackCreateSettlesAtCreate(created, configOk) ==
    /\ crPc = "awaitFallbackCreate"
    /\ ~created => (createProviderMayFail("groq") /\ ~configOk)
    /\ IF created
       THEN /\ provider' = "groq"
            /\ instances' = instances \cup {"groq"}
       ELSE UNCHANGED <<provider, instances>>
    /\ IF created /\ configOk
       THEN /\ crPc' = "awaitFallbackInitialize"
            /\ UNCHANGED nFailed
       ELSE /\ nFailed' = nFailed + 1
            /\ crPc' = "raised"
    /\ UNCHANGED <<messages, currentProviderType, model, configVars, initialized,
                   configured, nFallbacks, notCreated>>

\* initializeCurrentProvider(), lines 156-165: initialize() of groq settles
FallbackInitializeSettlesAtCreate(ok) ==
    /\ crPc = "awaitFallbackInitialize"
    /\ IF ok
       THEN /\ initialized' = initialized \cup {provider}
            /\ crPc' = "returned"
            /\ UNCHANGED nFailed
       ELSE /\ nFailed' = nFailed + 1
            /\ crPc' = "raised"
            /\ UNCHANGED initialized
    /\ UNCHANGED <<messages, provider, instances, currentProviderType, model, configVars,
                   configured, nFallbacks, notCreated>>

NextCreate ==
    \/ \E modelArg \in {NoModel, "custom"}, contextFile \in ContextFiles :
          Construct(modelArg, contextFile)
    \/ \E created \in BOOLEAN, configOk \in BOOLEAN : CreateSettlesAtCreate(created, configOk)
    \/ \E ok \in BOOLEAN : InitializeSettlesAtCreate(ok)
    \/ \E created \in BOOLEAN, configOk \in BOOLEAN :
          FallbackCreateSettlesAtCreate(created, configOk)
    \/ \E ok \in BOOLEAN : FallbackInitializeSettlesAtCreate(ok)

SpecCreate == InitCreate /\ [][NextCreate]_vars

----------------------------------------------------------------------------
(* MCP tools: the name a tool of a connected server is offered under, and  *)
(* the server and tool a call by that name is routed to.  Names are        *)
(* sequences of characters, so that building and parsing them is computed  *)
(* as the code computes it.                                                *)

NameChars == {"a", "b", "_"}
\* the names of up to MaxNameLen characters
Names == UNION { [1..n -> NameChars] : n \in 1..MaxNameLen }

\* String.prototype.startsWith, slice(n), indexOf, includes
startsWith(str, prefix) ==
    Len(str) >= Len(prefix) /\ SubSeq(str, 1, Len(prefix)) = prefix
slice(str, n) == SubSeq(str, n + 1, Len(str))
indexOf(str, sep) ==
    LET hits == { i \in 1..(Len(str) - Len(sep) + 1) : SubSeq(str, i, i + Len(sep) - 1) = sep }
    IN  IF hits = {} THEN 0 ELSE CHOOSE i \in hits : \A k \in hits : i <= k
includes(str, sep) == indexOf(str, sep) # 0

\* String.prototype.split with a separator that is not empty
RECURSIVE split(_, _)
split(str, sep) ==
    LET i == indexOf(str, sep)
    IN  IF i = 0 THEN <<str>>
        ELSE <<SubSeq(str, 1, i - 1)>> \o split(SubSeq(str, i + Len(sep), Len(str)), sep)

\* Array.prototype.join
RECURSIVE join(_, _)
join(parts, sep) ==
    IF parts = <<>> THEN <<>>
    ELSE IF Len(parts) = 1 THEN parts[1]
    ELSE parts[1] \o sep \o join(Tail(parts), sep)

\* 'mcp_' and '__mcp__'
McpPrefix == <<"m", "c", "p", "_">>
McpInfix == <<"_", "_", "m", "c", "p", "_", "_">>

\* getMCPToolSchemas(), line 137: `mcp_${serverName}_${tool.name}`
registeredName(server, tool) == McpPrefix \o server \o <<"_">> \o tool

Parsed(server, tool) == [serverName |-> server, toolName |-> tool, isNull |-> FALSE]

\* parseMCPToolName(), lines 18-38
parseMCPToolName(toolName) ==
    LET parts == split(slice(toolName, 4), <<"_">>)
        halves == split(toolName, <<"_", "_">>)
    IN  IF startsWith(toolName, McpPrefix) /\ Len(parts) >= 2
        THEN Parsed(parts[1], join(Tail(parts), <<"_">>))
        ELSE IF /\ includes(toolName, McpInfix)
                /\ halves[1] # <<>>
                /\ Len(halves) >= 3
                /\ halves[3] # <<>>
        THEN Parsed(halves[3], halves[1])
        ELSE NoParse

\* a server is connected that offers one tool
InitNames ==
    /\ ConstructedAgent(<<SystemPrompt, ProjectContext>>, MaxRequests)
    /\ mcpServerName \in Names
    /\ mcpToolName \in Names
    /\ schemaName = NoName
    /\ parsedName = NoParse
    /\ IdleExcept("mcp")

\* getMCPToolSchemas(), lines 127-142: the tool is offered to the backend
getMCPToolSchemas ==
    /\ schemaName = NoName
    /\ schemaName' = registeredName(mcpServerName, mcpToolName)
    /\ UNCHANGED <<mcpServerName, mcpToolName, parsedName>>
    /\ UNCHANGED <<agentAll, notMcpVars>>

\* executeMCPTool(), lines 43-54: the backend calls the tool by the name it
\* was offered under; the call goes to the server and tool parsed from it
executeMCPTool ==
    /\ schemaName # NoName
    /\ parsedName = NoParse
    /\ parsedName' = parseMCPToolName(schemaName)
    /\ UNCHANGED <<mcpServerName, mcpToolName, schemaName>>
    /\ UNCHANGED <<agentAll, notMcpVars>>

NextNames == getMCPToolSchemas \/ executeMCPTool

SpecNames == InitNames /\ [][NextNames]_vars

----------------------------------------------------------------------------
(* webSearch(): the providers it tries, in cascade and in strict mode.  A  *)
(* provider answers with results, with none, with a failure, or raises.    *)

SearchProviderNames == {"duckduckgo", "google", "bing"}
\* the argument preferredProvider: left out, 'auto', a provider, another word
PreferredProviders == {"undefined", "auto", "other"} \cup SearchProviderNames
Queries == {"query", "", "javascript:"}
SearchOutcomes == {"results", "no results", "failure", "raises"}

\* a mode that is never strict
isStrict_Never == FALSE
\* webSearch(), lines 743, 776, 808, 817 and 826: fallbackStrategy === 'strict'
isStrict == fallbackStrategy = "strict"

\* webSearch(), lines 744-745: needsKey, configured
needsKey(p) == p \in {"google", "bing"}
isConfigured(p) == IF p = "google" THEN googleOK ELSE IF p = "bing" THEN bingOK ELSE TRUE

\* a cascade that puts the preferred provider after the configured ones
cascadeProviders_PreferredLast(preferred) ==
    SelectSeq(<<"google", "bing", "duckduckgo">>,
              LAMBDA q : q # preferred /\ isConfigured(q)) \o
    (IF isConfigured(preferred) THEN <<preferred>> ELSE <<>>)
\* webSearch(), lines 757-767: the preferred provider, then google, bing and
\* duckduckgo, each once, the ones that need a key only when configured
cascadeProviders(preferred) ==
    LET base == <<preferred, "google", "bing", "duckduckgo">>
        kept == { i \in 1..4 : /\ \A k \in 1..(i - 1) : base[k] # base[i]
                               /\ isConfigured(base[i]) }
        list == SelectSeq([i \in 1..4 |-> IF i \in kept THEN base[i] ELSE "skip"],
                          LAMBDA q : q # "skip")
    IN  IF \E i \in 1..Len(list) : list[i] = "duckduckgo" THEN list
        ELSE Append(list, "duckduckgo")

\* webSearch(), lines 769-779: no preferred provider
autoProviders ==
    LET list == IF googleOK \/ bingOK
                THEN SelectSeq(<<"google", "bing", "duckduckgo">>, isConfigured)
                ELSE <<"duckduckgo">>
    IN  IF isStrict THEN <<list[1]>> ELSE list

Response(ok, p, n, err, atts) ==
    [success |-> ok, provider |-> p, results |-> n, error |-> err, attempts |-> atts]
Attempt(p, status, n) == [provider |-> p, status |-> status, results |-> n]

\* webSearch() returns
SearchReturns(response) == [searchResponse |-> response, sePc |-> "returned"]

\* webSearch(), lines 785-800 and 840-856: the for-loop takes the provider at
\* position i and calls its search function, or the loop is over
TakesProvider(list, i, atts, zero) ==
    IF i <= Len(list)
    THEN [called |-> Append(called, list[i]), providerIdx |-> i, sePc |-> "awaitSearch"]
    ELSE [providerIdx |-> i] @@
         SearchReturns(IF zero # NoResponse THEN [zero EXCEPT !.attempts = atts]
                       ELSE Response(FALSE, "All", 0, "all failed", atts))

\* webSearch(), lines 696-800, up to the first provider call
webSearch(query, preferred) ==
    /\ sePc = "idle"
    /\ search' =
           (IF query = ""
            THEN SearchReturns(Response(FALSE, "None", 0, "query is required", <<>>))
            ELSE IF query = "javascript:"
            THEN SearchReturns(Response(FALSE, "None", 0, "suspicious patterns", <<>>))
            ELSE IF preferred \in SearchProviderNames /\ isStrict
                    /\ needsKey(preferred) /\ ~isConfigured(preferred)
            THEN SearchReturns(Response(FALSE, preferred, 0, "not configured",
                                        <<Attempt(preferred, "fail", 0)>>))
            ELSE LET list == IF preferred \in SearchProviderNames
                             THEN IF isStrict THEN <<preferred>>
                                  ELSE cascadeProviders(preferred)
                             ELSE autoProviders
                 IN  [providers |-> list] @@ TakesProvider(list, 1, <<>>, NoResponse))
           @@ [preferredProvider |-> preferred] @@ search
    /\ UNCHANGED <<agentAll, notSearchVars>>

\* webSearch(), lines 802-838: the search function of the provider settles
SearchSettles(answer) ==
    /\ sePc = "awaitSearch"
    /\ LET p == providers[providerIdx]
           n == IF answer = "results" THEN 1 ELSE 0
           status == IF answer \in {"results", "no results"} THEN "success" ELSE "fail"
           atts == Append(attempts, Attempt(p, status, n))
           own == Response(status = "success", p, n,
                           IF status = "success" THEN "none" ELSE answer, atts)
           zero == IF answer = "no results" /\ zeroResultSuccess = NoResponse
                   THEN own ELSE zeroResultSuccess
       IN  search' =
               (IF answer = "results" \/ isStrict
                THEN SearchReturns(own)
                ELSE TakesProvider(providers, providerIdx + 1, atts, zero))
               @@ [attempts |-> atts, zeroResultSuccess |-> zero] @@ search
    /\ UNCHANGED <<agentAll, notSearchVars>>

\* the environment of webSearch(): the mode and the keys that are configured
InitSearch ==
    /\ ConstructedAgent(<<SystemPrompt, ProjectContext>>, MaxRequests)
    /\ IdleExcept("search")
    /\ \E strategy \in {"cascade", "strict"}, google \in BOOLEAN, bing \in BOOLEAN :
           search = SearchEnvironment(strategy, google, bing)

NextSearch ==
    \/ \E query \in Queries, preferred \in PreferredProviders : webSearch(query, preferred)
    \/ \E answer \in SearchOutcomes : SearchSettles(answer)

SpecSearch == InitSearch /\ [][NextSearch]_vars

----------------------------------------------------------------------------
(* checkRateLimit(): the fixed windows of the web tools, one per key.      *)

\* what checkRateLimit() is called with: a URL of a host, or no URL
Urls == Domains \cup {"not a url"}
\* the clock advances by a millisecond, by a minute, or by a minute and a
\* millisecond
Delays == {1, oneMinute, oneMinute + 1}

\* updateRateLimitEntry(), line 207: !entry || now - entry.firstRequest > oneMinute
startsNewWindow(entry, t) == entry = NoEntry \/ t - entry.firstRequest > oneMinute

\* updateRateLimitEntry(), lines 203-220
updateRateLimitEntry(entry, t) ==
    IF startsNewWindow(entry, t)
    THEN [count |-> 1, firstRequest |-> t, lastRequest |-> t]
    ELSE [entry EXCEPT !.count = @ + 1, !.lastRequest = t]

\* checkRateLimit(), lines 165-166 and 178-179: the window is open and full
limitExceeded(entry, t, max) ==
    /\ entry # NoEntry
    /\ t - entry.firstRequest < oneMinute
    /\ entry.count >= max

\* rateLimitMap.get(key)
entryOf(key) == MapGet(rateLimitMap, key, NoEntry)

\* what an allowed request adds to the history of a key
Counted(k, counter, inWindow) ==
    IF startsNewWindow(entryOf(k), now)
    THEN IF inWindow THEN 1 ELSE 0
    ELSE IF (now - entryOf(k).firstRequest < oneMinute) = inWindow
         THEN MapGet(counter, k, 0) + 1 ELSE MapGet(counter, k, 0)

\* checkRateLimit(), lines 154-201
checkRateLimit(url) ==
    /\ entryOf("global").count < MaxCount
    /\ url \in Domains => entryOf(url).count < MaxDomainCount
    /\ limiter' =
           (IF url \notin Domains
            THEN [rateResult |-> "check failed"]
            ELSE IF limitExceeded(entryOf("global"), now, MAX_REQUESTS_PER_MINUTE)
            THEN [rateResult |-> "global limit"]
            ELSE IF limitExceeded(entryOf(url), now, MAX_REQUESTS_PER_DOMAIN_PER_MINUTE)
            THEN [rateResult |-> "domain limit"]
            ELSE [rateResult |-> "allowed",
                  rateLimitMap |->
                      MapSet(MapSet(rateLimitMap, "global",
                                    updateRateLimitEntry(entryOf("global"), now)),
                             url, updateRateLimitEntry(entryOf(url), now)),
                  withinMinute |->
                      MapSet(MapSet(withinMinute, "global",
                                    Counted("global", withinMinute, TRUE)),
                             url, Counted(url, withinMinute, TRUE)),
                  atMinute |->
                      MapSet(MapSet(atMinute, "global", Counted("global", atMinute, FALSE)),
                             url, Counted(url, atMinute, FALSE))])
           @@ limiter
    /\ UNCHANGED <<agentAll, notRateVars>>

\* the setInterval callback, lines 55-64
cleanupRateLimits ==
    LET old == {k \in DOMAIN rateLimitMap : now - rateLimitMap[k].lastRequest > oneMinute}
    IN  /\ old # {}
        /\ limiter' = [rateLimitMap |-> MapDelete(rateLimitMap, old),
                       withinMinute |-> MapDelete(withinMinute, old),
                       atMinute |-> MapDelete(atMinute, old)] @@ limiter
        /\ UNCHANGED <<agentAll, notRateVars>>

\* time passes
ClockAdvances(delay) ==
    /\ nTicks < MaxTicks
    /\ limiter' = [nTicks |-> nTicks + 1, now |-> now + delay] @@ limiter
    /\ UNCHANGED <<agentAll, notRateVars>>

InitRate ==
    /\ ConstructedAgent(<<SystemPrompt, ProjectContext>>, MaxRequests)
    /\ callbacks = CallbackNames
    /\ IdleExcept("rate")
    /\ NoRate

NextRate ==
    \/ \E url \in Urls : checkRateLimit(url)
    \/ cleanupRateLimits
    \/ \E delay \in Delays : ClockAdvances(delay)

SpecRate == InitRate /\ [][NextRate]_vars

----------------------------------------------------------------------------
(* ConfigManager: the MCP servers of the config file.  Every method reads  *)
(* the file, changes the Config and writes it back.                        *)

\* readConfig(), lines 685-696: {} when there is no file, or no JSON in it
readConfig(file) == IF file.state = "json" THEN file.config ELSE EmptyConfig

\* getMCPServers(), lines 1049-1057: config.mcp?.servers || {}
getMCPServers(file) ==
    LET config == readConfig(file)
    IN  IF config.hasMcp /\ config.hasServers THEN config.servers ELSE NoServers

\* getMCPServer(), lines 1059-1062: NoServer stands for null
getMCPServer(file, serverName) == getMCPServers(file)[serverName]

\* a server stored as enabled whatever its config says
withDefaults_EnabledLast(serverConfig) == [serverConfig EXCEPT !.enabled = "true"]
\* addMCPServer(), lines 1073-1076: { enabled: true, ...serverConfig }
withDefaults(serverConfig) ==
    IF serverConfig.enabled = "unset" THEN [serverConfig EXCEPT !.enabled = "true"]
    ELSE serverConfig

\* writeConfig(), lines 698-709: writes the file, or raises and leaves it
writeConfig(config, op, serverName, serverConfig, written) ==
    /\ nCfgOps < MaxConfigOps
    /\ settings' =
           [nCfgOps |-> nCfgOps + 1,
            configFile |-> IF written THEN FileOf(config) ELSE configFile,
            cfgOp |-> [op |-> op, serverName |-> serverName, serverConfig |-> serverConfig,
                       threw |-> ~written]]
    /\ UNCHANGED <<agentAll, notSettingsVars>>

\* a method that returns false and writes nothing
NotWritten(op, serverName) ==
    /\ nCfgOps < MaxConfigOps
    /\ settings' =
           [nCfgOps |-> nCfgOps + 1,
            cfgOp |-> [op |-> op, serverName |-> serverName, serverConfig |-> NoServer,
                       threw |-> FALSE]] @@ settings
    /\ UNCHANGED <<agentAll, notSettingsVars>>

\* addMCPServer(), lines 1065-1082
addMCPServer(serverName, serverConfig, written) ==
    LET config == readConfig(configFile)
        servers == IF config.hasMcp /\ config.hasServers THEN config.servers ELSE NoServers
    IN  writeConfig([config EXCEPT !.hasMcp = TRUE,
                                   !.hasTimeout = config.hasMcp /\ config.hasTimeout,
                                   !.hasServers = TRUE,
                                   !.servers = [servers EXCEPT
                                                   ![serverName] = withDefaults(serverConfig)]],
                    "add", serverName, serverConfig, written)

\* removeMCPServer(), lines 1084-1106
removeMCPServer(serverName, written) ==
    LET config == readConfig(configFile)
        left == [config.servers EXCEPT ![serverName] = NoServer]
        anyLeft == left # NoServers
    IN  IF getMCPServer(configFile, serverName) # NoServer
        THEN writeConfig([config EXCEPT !.servers = left,
                                        !.hasServers = anyLeft,
                                        !.hasMcp = anyLeft \/ config.hasTimeout],
                         "remove", serverName, NoServer, written)
        ELSE NotWritten("remove", serverName)

\* enableMCPServer() and disableMCPServer(), lines 1108-1135
setEnabled(serverName, enabled, written) ==
    LET config == readConfig(configFile)
    IN  IF getMCPServer(configFile, serverName) # NoServer
        THEN writeConfig([config EXCEPT !.servers[serverName].enabled = enabled],
                         IF enabled = "true" THEN "enable" ELSE "disable",
                         serverName, NoServer, written)
        ELSE NotWritten(IF enabled = "true" THEN "enable" ELSE "disable", serverName)

\* setMCPGlobalTimeout(), lines 1137-1148
setMCPGlobalTimeout(written) ==
    LET config == readConfig(configFile)
    IN  writeConfig([config EXCEPT !.hasMcp = TRUE, !.hasTimeout = TRUE,
                                   !.hasServers = config.hasMcp /\ config.hasServers],
                    "timeout", "none", NoServer, written)

\* the file the ConfigManager finds: none, one that is no JSON, {} or { mcp: {} }
InitSettings ==
    /\ ConstructedAgent(<<SystemPrompt, ProjectContext>>, MaxRequests)
    /\ callbacks = CallbackNames
    /\ IdleExcept("settings")
    /\ \E file \in {MissingFile, CorruptFile, FileOf(EmptyConfig),
                     FileOf([EmptyConfig EXCEPT !.hasMcp = TRUE])} :
           settings = SettingsOf(file)

NextSettings ==
    \/ \E serverName \in ServerNames, serverConfig \in ServerConfigs, written \in BOOLEAN :
          addMCPServer(serverName, serverConfig, written)
    \/ \E serverName \in ServerNames, written \in BOOLEAN : removeMCPServer(serverName, written)
    \/ \E serverName \in ServerNames, enabled \in {"true", "false"}, written \in BOOLEAN :
          setEnabled(serverName, enabled, written)
    \/ \E written \in BOOLEAN : setMCPGlobalTimeout(written)

SpecSettings == InitSettings /\ [][NextSettings]_vars

----------------------------------------------------------------------------
(* MCPErrorHandler.attemptReconnection(): each call reads the retry        *)
(* counter of its server, waits, calls reconnectToServer() and writes the  *)
(* counter when that settles.  Calls may overlap.                          *)

Invocations == 1..Len(rcCalls)
InFlight(i) == rcCalls[i].pc \in {"delay", "awaitReconnect"}

\* attemptReconnection(), line 140: this.retryAttempts.get(serverName) || 0
retries(serverName) == MapGet(retryAttempts, serverName, 0)

\* attemptReconnection(), line 153: the call of mcpManager.reconnectToServer()
CallsReconnect(serverName) ==
    [attemptsMade |->
         MapSet(attemptsMade, serverName, MapGet(attemptsMade, serverName, 0) + 1)]

\* attemptReconnection(), line 162: currentAttempts + 1
failureCount(i) == rcCalls[i].currentAttempts + 1

\* attemptReconnection(), lines 139-153: up to the first await
attemptReconnection(serverName) ==
    /\ Len(rcCalls) < MaxInvocations
    /\ LET call == [pc |-> "awaitReconnect", serverName |-> serverName,
                    currentAttempts |-> retries(serverName), result |-> "none"]
       IN  handler' =
               (IF retries(serverName) >= maxRetries
                THEN [rcCalls |-> Append(rcCalls, [call EXCEPT !.pc = "returned",
                                                               !.result = "false"])]
                ELSE IF retries(serverName) > 0
                THEN [rcCalls |-> Append(rcCalls, [call EXCEPT !.pc = "delay"])]
                ELSE [rcCalls |-> Append(rcCalls, call)] @@ CallsReconnect(serverName))
               @@ [overlapped |-> overlapped \/ \E k \in Invocations : InFlight(k)]
               @@ handler
    /\ UNCHANGED <<agentAll, notReconnectVars>>

\* attemptReconnection(), lines 149-153: the delay is over
DelayEnds(i) ==
    /\ i \in Invocations
    /\ rcCalls[i].pc = "delay"
    /\ handler' = [rcCalls |-> [rcCalls EXCEPT ![i].pc = "awaitReconnect"]]
                   @@ CallsReconnect(rcCalls[i].serverName) @@ handler
    /\ UNCHANGED <<agentAll, notReconnectVars>>

\* attemptReconnection(), lines 155-165: reconnectToServer() settles
ReconnectSettles(i, reconnected) ==
    /\ i \in Invocations
    /\ rcCalls[i].pc = "awaitReconnect"
    /\ handler' =
           (IF reconnected
            THEN [retryAttempts |-> MapDelete(retryAttempts, {rcCalls[i].serverName}),
                  attemptsMade |-> MapDelete(attemptsMade, {rcCalls[i].serverName}),
                  rcCalls |-> [rcCalls EXCEPT ![i].pc = "returned", ![i].result = "true"]]
            ELSE [retryAttempts |->
                      MapSet(retryAttempts, rcCalls[i].serverName, failureCount(i)),
                  rcCalls |-> [rcCalls EXCEPT ![i].pc = "returned", ![i].result = "false"]])
           @@ handler
    /\ UNCHANGED <<agentAll, notReconnectVars>>

\* clearErrorHistory(serverName), lines 224-228
clearErrorHistory(serverName) ==
    /\ serverName \in DOMAIN retryAttempts \cup DOMAIN attemptsMade
    /\ handler' = [retryAttempts |-> MapDelete(retryAttempts, {serverName}),
                   attemptsMade |-> MapDelete(attemptsMade, {serverName})] @@ handler
    /\ UNCHANGED <<agentAll, notReconnectVars>>

InitReconnect ==
    /\ ConstructedAgent(<<SystemPrompt, ProjectContext>>, MaxRequests)
    /\ callbacks = CallbackNames
    /\ IdleExcept("reconnect")
    /\ NoReconnect

NextReconnect ==
    \/ \E serverName \in ReconnectServers : attemptReconnection(serverName)
    \/ \E i \in 1..MaxInvocations : DelayEnds(i)
    \/ \E i \in 1..MaxInvocations, reconnected \in BOOLEAN : ReconnectSettles(i, reconnected)
    \/ \E serverName \in ReconnectServers : clearErrorHistory(serverName)

SpecReconnect == InitReconnect /\ [][NextReconnect]_vars

----------------------------------------------------------------------------
(* MCPClientManager.refreshServers() and initializeClients(): each takes   *)
(* the configuration once and is suspended while a client is closed and    *)
(* while a server is connected.  The UI starts both without waiting for    *)
(* them.  An await of a call that returns at once is not a step.           *)

NumServers == Len(ServerOrder)

\* disconnectFromServer(), line 192: this.clients.delete(name)
removed(cl, name) == MapDelete(cl, {name})

\* refreshServers() from position pos of its loops (1..NumServers: the first
\* loop, then the second) with clients cl, its currentServers and its
\* connectedServerNames, up to its next await: what clients is then, where
\* it waits and at which position
RECURSIVE RefreshFrom(_, _, _, _)
RefreshFrom(cl, pos, current, known) ==
    IF pos > 2 * NumServers THEN [clients |-> cl, pc |-> "returned", pos |-> pos]
    ELSE IF pos <= NumServers
    THEN \* lines 330-335: servers that are no longer configured
         LET name == ServerOrder[pos]
         IN  IF name \in known /\ configOf(current, name) = NotConfigured
             THEN IF clientOf(cl, name).state = "connected"
                  THEN [clients |-> cl, pc |-> "closing", pos |-> pos]
                  ELSE RefreshFrom(removed(cl, name), pos + 1, current, known)
             ELSE RefreshFrom(cl, pos + 1, current, known)
    ELSE \* lines 338-362: new, updated and disabled servers
         LET name == ServerOrder[pos - NumServers]
             config == configOf(current, name)
             existingInfo == clientOf(cl, name)
         IN  IF config.state = "enabled"
             THEN IF \/ existingInfo = NoClient
                     \/ existingInfo.state # "connected"
                     \/ existingInfo.config # config.config
                  THEN IF existingInfo.state = "connected"
                       THEN [clients |-> cl, pc |-> "closing", pos |-> pos]
                       ELSE [clients |-> removed(cl, name), pc |-> "connecting", pos |-> pos]
                  ELSE RefreshFrom(cl, pos + 1, current, known)
             ELSE IF config.state = "disabled" /\ existingInfo.state = "connected"
             THEN [clients |-> cl, pc |-> "closing", pos |-> pos]
             ELSE RefreshFrom(cl, pos + 1, current, known)

RefreshGoesOn(next) == [clients |-> next.clients, rfPc |-> next.pc, rfPos |-> next.pos]

Refreshing == rfPc \in {"closing", "connecting"}

\* the server refreshServers() is waiting for
RefreshServer == ServerOrder[IF rfPos <= NumServers THEN rfPos ELSE rfPos - NumServers]

\* refreshServers(), lines 324-362, up to its first await
refreshServers ==
    /\ rfPc \in {"idle", "returned"}
    /\ nRefreshes < MaxRefreshes
    /\ manager' =
           RefreshGoesOn(RefreshFrom(clients, 1, configuredServers, DOMAIN clients))
           @@ [nRefreshes |-> nRefreshes + 1,
               currentServers |-> configuredServers,
               connectedServerNames |-> DOMAIN clients,
               rfChanged |-> FALSE,
               rfOverlapped |-> inPc = "connecting"]
           @@ manager
    /\ UNCHANGED <<agentAll, notRefreshVars>>

\* disconnectFromServer(), lines 186-192: client.close() settles, for
\* refreshServers()
CloseSettles ==
    /\ rfPc = "closing"
    /\ LET name == RefreshServer
           reconnects == rfPos > NumServers /\ configOf(currentServers, name).state = "enabled"
       IN  manager' =
               RefreshGoesOn(IF reconnects
                             THEN [clients |-> removed(clients, name), pc |-> "connecting",
                                   pos |-> rfPos]
                             ELSE RefreshFrom(removed(clients, name), rfPos + 1,
                                              currentServers, connectedServerNames))
               @@ manager
    /\ UNCHANGED <<agentAll, notRefreshVars>>

\* connectToServer(), lines 154 and 162-171: the entry it sets
connected(cl, name, config, ok) ==
    MapSet(cl, name, [state |-> IF ok THEN "connected" ELSE "failed", config |-> config.config])

\* connectToServer() settles for refreshServers(), lines 351-355
ConnectSettles(ok) ==
    /\ rfPc = "connecting"
    /\ manager' =
           RefreshGoesOn(RefreshFrom(
               connected(clients, RefreshServer, configOf(currentServers, RefreshServer), ok),
               rfPos + 1, currentServers, connectedServerNames))
           @@ manager
    /\ UNCHANGED <<agentAll, notRefreshVars>>

\* initializeClients() from position pos of its loop: where it waits next
RECURSIVE InitializeFrom(_, _)
InitializeFrom(list, pos) ==
    IF pos > NumServers THEN [pc |-> "returned", pos |-> pos]
    ELSE IF configOf(list, ServerOrder[pos]).state = "enabled" THEN [pc |-> "connecting", pos |-> pos]
    ELSE InitializeFrom(list, pos + 1)

\* initializeClients(), lines 39-51, up to its first await
initializeClients ==
    /\ inPc = "notCalled"
    /\ LET next == InitializeFrom(configuredServers, 1)
       IN  manager' =
               [initServers |-> configuredServers,
                inPc |-> next.pc,
                inPos |-> next.pos,
                rfOverlapped |-> rfOverlapped \/ (Refreshing /\ next.pc = "connecting")]
               @@ manager
    /\ UNCHANGED <<agentAll, notRefreshVars>>

\* connectToServer() settles for initializeClients(), lines 44-48
InitializeConnectSettles(ok) ==
    /\ inPc = "connecting"
    /\ LET next == InitializeFrom(initServers, inPos + 1)
       IN  manager' =
               [clients |-> connected(clients, ServerOrder[inPos],
                                      configOf(initServers, ServerOrder[inPos]), ok),
                inPc |-> next.pc,
                inPos |-> next.pos]
               @@ manager
    /\ UNCHANGED <<agentAll, notRefreshVars>>

\* the configuration of one server is added, removed or changed
ConfigChanges(name, entry) ==
    /\ nConfigChanges < MaxConfigChanges
    /\ entry # configOf(configuredServers, name)
    /\ manager' =
           [nConfigChanges |-> nConfigChanges + 1,
            configuredServers |-> IF entry = NotConfigured
                                  THEN MapDelete(configuredServers, {name})
                                  ELSE MapSet(configuredServers, name, entry),
            rfChanged |-> rfChanged \/ Refreshing]
           @@ manager
    /\ UNCHANGED <<agentAll, notRefreshVars>>

InitRefresh ==
    /\ ConstructedAgent(<<SystemPrompt, ProjectContext>>, MaxRequests)
    /\ callbacks = CallbackNames
    /\ IdleExcept("refresh")
    /\ \E config \in [ServerNames -> ConfigEntries] :
          NewManager(MapDelete(config, {n \in ServerNames : config[n] = NotConfigured}))

NextRefresh ==
    \/ refreshServers
    \/ CloseSettles
    \/ \E ok \in BOOLEAN : ConnectSettles(ok)
    \/ initializeClients
    \/ \E ok \in BOOLEAN : InitializeConnectSettles(ok)
    \/ \E name \in ServerNames, entry \in ConfigEntries : ConfigChanges(name, entry)

SpecRefresh == InitRefresh /\ [][NextRefresh]_vars

----------------------------------------------------------------------------
(* The operations of the host mixed: runs, interrupt(), clearHistory(),    *)
(* setModel() and switchProvider(), on one Agent.  The backend answers     *)
(* with text, with one call of a read tool or with an error, and the host  *)
(* names a backend and lets the model default, or sets the model alone.    *)

OpsCallSeqs == { <<k>> : k \in { c \in CallKinds : c.name = "read_file" } }

\* the host has calls of chat(), interrupt() and switchProvider() left
MayOperate == nRuns + nInterrupts + nSwitches < MaxOps

NextOps ==
    \/ MayOperate /\ ChatStart
    \/ LoopTop
    \/ ChatRespondsWith(OpsCallSeqs)
    \/ \E shouldRetry \in BOOLEAN : OnErrorAnswers(shouldRetry)
    \/ \E shouldContinue \in BOOLEAN : OnMaxIterationsAnswers(shouldContinue)
    \/ ToolLoop
    \/ \E result \in ToolOutcomes : ToolSettles(result)
    \/ MayOperate /\ Interrupt
    \/ ClearHistory
    \/ \E providerType \in ProviderTypes :
          MayOperate /\ SwitchProvider(providerType, NoModel)
    \/ \E created \in BOOLEAN, configOk \in BOOLEAN : CreateSettles(created, configOk)
    \/ \E ok \in BOOLEAN : InitializeSettles(ok)
    \/ \E created \in BOOLEAN, configOk \in BOOLEAN : FallbackCreateSettles(created, configOk)
    \/ \E ok \in BOOLEAN : FallbackInitializeSettles(ok)
    \/ \E created \in BOOLEAN, configOk \in BOOLEAN : RollbackCreateSettles(created, configOk)
    \/ \E ok \in BOOLEAN : RollbackInitializeSettles(ok)
    \/ SetModel("custom")

SpecOps == Init /\ [][NextOps]_vars

----------------------------------------------------------------------------
(* clearHistory() applied to the logs a session can have built up: the     *)
(* system prompt, then Turns of every role, one of them at least no system *)
(* Turn (a log of system Turns alone is what clearHistory() leaves).       *)

TurnKinds ==
    { ProjectContext, InterruptNote, UserTurn, FinalTurn,
      Turn("assistant", "", << <<1, 1>> >>, NoId), ToolTurn(<<1, 1>>, "success") }

UsedLogs ==
    { <<SystemPrompt>> \o tail :
        tail \in { t \in UNION { [1..n -> TurnKinds] : n \in 1..MaxLogLen } :
                     \E k \in 1..Len(t) : ~IsSystemTurn(t[k]) } }

InitClear == \E log \in UsedLogs : Constructed(log, MaxRequests)

SpecClear == InitClear /\ [][ClearHistory]_vars

----------------------------------------------------------------------------
(* A second call of chat() while the first one is suspended.  chat() has no *)
(* guard against it: the second call runs on the same fields.  The model   *)
(* follows one such call up to its backend call, and through the answers   *)
(* that end it at once.                                                    *)

\* chat(), lines 408-442, called while a run is suspended
ChatOverlaps ==
    /\ pc \in Suspended
    /\ pc2 = "idle"
    /\ isInterrupted' = FALSE
    /\ IF provider = "null"
       THEN /\ pc2' = "returned"
            /\ UNCHANGED <<messages, requestCount, currentAbortController>>
       ELSE /\ messages' = Append(messages, UserTurn)
            /\ requestCount' = requestCount + 1
            /\ currentAbortController' = "live"
            /\ pc2' = "awaitChat"
    /\ UNCHANGED <<sessionAutoApprove, callbacks, readFiles, runVars, histVars, provVars,
                   factoryVars, configVars, switchVars, requestLimit, createVars,
                   outsideVars, toolNotes>>

\* the answers that end the second call at once
OverlapResponses == {"text", "abortError", "authError"}

\* chat(), lines 442-579, for the second call: provider.chat() settles
ChatOverlapSettles(response) ==
    /\ pc2 = "awaitChat"
    /\ pc2' = "returned"
    /\ currentAbortController' = "null"
    /\ messages' = IF response = "text" THEN Append(messages, FinalTurn) ELSE messages
    /\ UNCHANGED <<isInterrupted, sessionAutoApprove, requestCount, callbacks, readFiles,
                   runVars, histVars, provVars, factoryVars, configVars, switchVars,
                   requestLimit, createVars, outsideVars, toolNotes>>

NextOverlap ==
    \/ Next
    \/ ChatOverlaps
    \/ \E response \in OverlapResponses : ChatOverlapSettles(response)

SpecOverlap == Init /\ [][NextOverlap]_vars

----------------------------------------------------------------------------
(* Reading the log *)

Indices == 1..Len(messages)
IsRole(i, r) == messages[i].role = r
IsToolCallTurn(i) == IsRole(i, "assistant") /\ Len(messages[i].tool_calls) >= 1
IsRejectedToolTurn(msg) == msg.role = "tool" /\ userRejected(msg.content)

\* the Turns that follow Turn i up to the next assistant or user Turn
SegmentEnd(i) ==
    LET later == { j \in Indices : j > i /\ messages[j].role \in {"assistant", "user"} }
    IN  IF later = {} THEN Len(messages) + 1
        ELSE CHOOSE j \in later : \A k \in later : j <= k
IsTool(msg) == msg.role = "tool"
ToolTurnsAfter(i) == SelectSeq(SubSeq(messages, i + 1, SegmentEnd(i) - 1), IsTool)
ToolIdsAfter(i) == [k \in 1..Len(ToolTurnsAfter(i)) |-> ToolTurnsAfter(i)[k].tool_call_id]

\* the most recent assistant Turn before Turn j (0: none)
PrecedingAssistant(j) ==
    LET earlier == { i \in Indices : i < j /\ IsRole(i, "assistant") }
    IN  IF earlier = {} THEN 0
        ELSE CHOOSE i \in earlier : \A k \in earlier : k <= i

IdsOf(calls) == [k \in 1..Len(calls) |-> calls[k].id]
InToolPhase == pc \in {"toolLoop", "awaitApproval", "awaitTool"}
\* Turn i is the assistant Turn whose tool calls the run is working through
InProgress(i) == InToolPhase /\ messages[i].tool_calls = IdsOf(toolCalls)

----------------------------------------------------------------------------
(* Claims *)

\* C1: every assistant Turn that requests N >= 1 tool calls is followed, once
\* its iteration is over, by exactly N tool Turns carrying the requested ids in
\* request order, whatever the outcome of each call.
C1_PairingAndOrdering ==
    \A i \in Indices :
        (IsToolCallTurn(i) /\ ~InProgress(i)) => ToolIdsAfter(i) = messages[i].tool_calls

\* C2: each tool Turn's toolCallId is the id of one of the tool calls of the
\* most recent assistant Turn that precedes it in the log.
C2_ToolTurnAnswersPrecedingAssistant ==
    \A j \in Indices :
        IsRole(j, "tool") =>
            /\ PrecedingAssistant(j) # 0
            /\ \E k \in 1..Len(messages[PrecedingAssistant(j)].tool_calls) :
                  messages[PrecedingAssistant(j)].tool_calls[k] = messages[j].tool_call_id

\* a step that issues a backend call, and one that starts a tool execution
IssuesBackendCall == requestCount' # requestCount
StartsToolExecution == pc # "awaitTool" /\ pc' = "awaitTool"
LastTurn == messages[Len(messages)]

AppendsRejectedToolTurn ==
    /\ Len(messages') > Len(messages)
    /\ \E k \in (Len(messages) + 1)..Len(messages') : IsRejectedToolTurn(messages'[k])

\* C4: a tool result with userRejected=true ends the run: its tool Turn is
\* followed by exactly one explanatory system Turn, the run returns, and it
\* makes no further backend call.
C4_RejectionEndsRun ==
    [][AppendsRejectedToolTurn =>
          /\ \E id \in {toolCalls[idx].id} : \E result \in RejectedResults :
                messages' = messages \o <<ToolTurn(id, result), RejectNote>>
          /\ pc' = "idle"
          /\ outcome' = "returned"
          /\ ~IssuesBackendCall]_vars

\* a rejected call, its explanatory Turn, and the run over
C4_Witness ==
    /\ pc = "idle"
    /\ Len(messages) >= 2
    /\ LastTurn = RejectNote
    /\ messages[Len(messages) - 1].role = "tool"
    /\ messages[Len(messages) - 1].content = "canceled by user"

\* C5: a dangerous tool is executed only after an approval request for that
\* very call was answered approved=true, whatever the session auto-approve
\* flag and earlier autoApproveSession answers.
C5_DangerousAlwaysApproved ==
    (pc = "awaitTool" /\ isDangerousTool(toolCalls[idx])) => approvalResult = "approved"

\* a dangerous tool executes while session auto-approve is on
C5_Witness ==
    /\ pc = "awaitTool"
    /\ isDangerousTool(toolCalls[idx])
    /\ sessionAutoApprove
    /\ approvalResult = "approved"

\* the loop is about to decide on a call that is gated: its arguments parse,
\* the read-before-edit precondition holds, and the tool is dangerous or
\* requires approval while session auto-approve is off
AtGatedCall ==
    /\ pc = "toolLoop"
    /\ idx <= Len(toolCalls)
    /\ ~isInterrupted
    /\ toolCalls[idx].parses
    /\ ~FailsReadBeforeEdit(toolCalls[idx])
    /\ \/ isDangerousTool(toolCalls[idx])
       \/ requiresApprovalTool(toolCalls[idx]) /\ ~sessionAutoApprove

\* C6: with no approval callback wired, a call of a dangerous tool, or of an
\* approval-required tool while session auto-approve is off, is rejected and
\* the tool is not executed.
C6_FailClosed ==
    /\ []("onToolApproval" \notin callbacks /\ pc = "awaitTool"
            => /\ ~isDangerousTool(toolCalls[idx])
               /\ requiresApprovalTool(toolCalls[idx]) => canAutoApprove)
    /\ [][("onToolApproval" \notin callbacks /\ AtGatedCall)
            => /\ messages' = messages \o
                     <<ToolTurn(toolCalls[idx].id, "canceled by user"), RejectNote>>
               /\ pc' = "idle"]_vars

\* no approval callback, and a dangerous call was rejected
C6_Witness ==
    /\ "onToolApproval" \notin callbacks
    /\ pc = "idle"
    /\ Len(messages) >= 3
    /\ LastTurn = RejectNote
    /\ messages[Len(messages) - 1].content = "canceled by user"
    /\ IsToolCallTurn(Len(messages) - 2)

\* the tools that change files
MutationTools == {"edit_file", "create_file", "delete_file"}
AtApprovalOrExecution == pc \in {"awaitApproval", "awaitTool"}

\* C7, as claimed: no mutation tool call on a path gets as far as an approval
\* request or an execution unless a read tool was invoked on that path before.
C7_EveryMutationNeedsRead ==
    (AtApprovalOrExecution /\ toolNameOf(toolCalls[idx]) \in MutationTools
        /\ toolCalls[idx].path # NoPath)
    => resolve(toolCalls[idx].path) \in readFiles

\* the loop is about to decide on an edit_file call whose file was not read
AtUnreadEdit ==
    /\ pc = "toolLoop"
    /\ idx <= Len(toolCalls)
    /\ ~isInterrupted
    /\ toolCalls[idx].parses
    /\ toolNameOf(toolCalls[idx]) = "edit_file"
    /\ toolCalls[idx].path # NoPath
    /\ resolve(toolCalls[idx].path) \notin readFiles

\* C7, amended: an edit_file call on path P is rejected with the structured
\* precondition error, with no approval request and no execution, unless a
\* read tool was invoked on P (by any spelling of the path) earlier in the
\* session; the other mutation tools are not subject to the precondition.
C7_EditNeedsRead ==
    /\ []((AtApprovalOrExecution /\ toolNameOf(toolCalls[idx]) = "edit_file"
              /\ toolCalls[idx].path # NoPath)
            => resolve(toolCalls[idx].path) \in readFiles)
    /\ [][AtUnreadEdit
            => /\ messages' = Append(messages, ToolTurn(toolCalls[idx].id, "read before edit"))
               /\ pc' = "toolLoop"]_vars
    /\ [][readFiles' # readFiles
            => /\ pc = "awaitTool"
               /\ toolNameOf(toolCalls[idx]) = "read_file"
               /\ readFiles' = readFiles \cup {resolve(toolCalls[idx].path)}]_vars

\* an edit of a file that was not read has been answered with the
\* precondition error, and the run has gone on
C7_Witness ==
    /\ pc # "toolLoop"
    /\ readFiles = {}
    /\ LastTurn.role = "tool"
    /\ LastTurn.content = "read before edit"

\* the Turns appended since the current run began (the log was not cleared
\* since: its user Turn is there)
LastUser ==
    LET users == { i \in Indices : IsRole(i, "user") }
    IN  CHOOSE i \in users : \A k \in users : k <= i
NotesOfRun == { j \in Indices : j > LastUser /\ messages[j] = InterruptNote }

\* C8: a run during which interrupt() was called, however often, has exactly
\* one interruption Turn appended to the log.
C8_OneInterruptionTurnPerRun ==
    (pc # "idle" /\ runInterrupts >= 1 /\ \E i \in Indices : IsRole(i, "user"))
    => Cardinality(NotesOfRun) = 1

\* C9: when interrupt() was called while the backend call is in flight, the
\* run ends silently however the call settles: no final message is emitted
\* and no assistant or tool Turn is appended.  (A call that settles with a
\* retryable error is left out: it goes to the error callback or adds the
\* error note.)
C9_InterruptedCallEndsSilently ==
    [][(pc = "awaitChat" /\ isInterrupted /\ pc' # "awaitChat")
          => \/ /\ pc' = "idle"
                /\ messages' = messages
                /\ finalMessages' = finalMessages
             \/ pc' = "awaitOnError"
             \/ messages' = Append(messages, ApiErrorNote)]_vars

\* C10: when interrupt() was called before an approval request is issued or
\* while it is pending, the tool is not executed, whatever the answer.
C10_NoExecutionAfterInterruptedApproval ==
    [][/\ (isInterrupted /\ pc = "toolLoop") => pc' \notin {"awaitApproval", "awaitTool"}
       /\ (isInterrupted /\ pc = "awaitApproval") => pc' # "awaitTool"]_vars

\* an approval request was answered after interrupt(): the call was rejected
\* as interrupted
C10_Witness ==
    /\ pc = "idle"
    /\ isInterrupted
    /\ Len(messages) >= 2
    /\ messages[Len(messages) - 1].role = "tool"
    /\ messages[Len(messages) - 1].content = "interrupted by user"

\* C11: at most one run of an Agent is in progress: a second call of chat()
\* is never in progress, on the same log and interruption flag, while an
\* earlier one is suspended at a backend call, an approval wait or a tool
\* execution.
C11_AtMostOneRun == pc2 = "awaitChat" => pc \notin Suspended

\* a step that ends a switch whose requested backend failed to initialize
FailedSwitchEnds == swPc # "idle" /\ swPc' = "idle" /\ requestedFailed'

\* C12: when a backend switch has failed, the backend type, the model and the
\* active backend instance are those in use right before the switch was
\* requested.
C12_FailedSwitchRestores ==
    [][FailedSwitchEnds =>
          /\ provider' = before.provider
          /\ currentProviderType' = before.type
          /\ model' = before.model]_vars

C14_FailedInitRaises ==
    [][FailedSwitchEnds => swOutcome' = "raised"]_vars

\* C15: a backend call that fails with an authentication error ends the run at
\* once by raising: the step that takes the failure returns to the caller with
\* an error, asks no error callback, leaves the log as it is and issues no
\* backend call, and for the rest of that run nothing else happens
AuthErrorSettles == pc = "awaitChat" /\ pc' # "awaitChat" /\ lastAnswer' = "authError"
RetryableFailureSettles ==
    pc = "awaitChat" /\ pc' # "awaitChat" /\ lastAnswer' = "error"
ErrorCallbackAnswers == pc = "awaitOnError" /\ pc' # "awaitOnError"
TowardsNextCall == pc \in {"loopTop", "awaitMaxIterations"}

\* C16 as stated: a retryable failure changes the log only when the decision
\* is not to retry, then by one appended system Turn that ends the run; up to
\* the next backend call the log stays what it was at the failed call
C16_LogChangesOnlyOnNoRetry ==
    [][/\ RetryableFailureSettles => messages' = messages
       /\ ErrorCallbackAnswers =>
             IF pc' = "idle"
             THEN messages' = Append(messages, NoRetryNote) /\ outcome' = "returned"
             ELSE messages' = messages
       /\ TowardsNextCall => messages' = messages]_vars

\* C16, amended: with an error callback wired the failure itself leaves the
\* log alone and the callback is asked; "do not retry" appends one system Turn
\* and ends the run, "retry" leaves the log alone, and so does every step up to
\* the next backend call.  With no error callback wired the failure appends one
\* system Turn and the run goes on
C16_RetryableFailureFrame ==
    [][/\ RetryableFailureSettles =>
             IF "onError" \in callbacks
             THEN messages' = messages /\ pc' = "awaitOnError"
             ELSE /\ messages' = Append(messages, ApiErrorNote)
                  /\ pc' = "loopTop"
                  /\ outcome' = "running"
       /\ ErrorCallbackAnswers =>
             IF pc' = "idle"
             THEN messages' = Append(messages, NoRetryNote) /\ outcome' = "returned"
             ELSE messages' = messages /\ pc' = "loopTop"
       /\ TowardsNextCall => messages' = messages]_vars

\* the backend call that follows a retried failure is in flight, on the log
\* of the failed call
C16_Witness ==
    /\ pc = "awaitChat"
    /\ lastAnswer = "error"
    /\ runRequests = 2
    /\ "onError" \in callbacks
    /\ LastTurn = UserTurn

\* every backend call of the current run was answered with tool calls: each
\* left its assistant Turn in the log of a run that nothing disturbs
AllResponsesToolCalls ==
    Cardinality({ j \in Indices : j > LastUser /\ IsToolCallTurn(j) }) = runRequests

\* C17: in a run whose backend responses all carry tool calls, none of them
\* rejected, the max-iterations callback is asked after exactly maxIterations
\* backend calls: it is being asked for the first time only with that many
\* calls made, and with that many calls made the loop asks it instead of calling
\* the backend again; when it answers false the run returns and the
\* final-message callback has not fired
AtIterationLimit ==
    /\ pc = "loopTop"
    /\ AllResponsesToolCalls
    /\ nContinues = 0
    /\ runRequests = maxIterations
    /\ "onMaxIterations" \in callbacks
AsksInsteadOfCalling == AtIterationLimit => pc' = "awaitMaxIterations"
C17_MaxIterationsAsked ==
    /\ []((pc = "awaitMaxIterations" /\ nContinues = 0 /\ AllResponsesToolCalls)
            => runRequests = maxIterations)
    /\ [][/\ AsksInsteadOfCalling
           /\ (pc = "awaitMaxIterations" /\ AllResponsesToolCalls /\ pc' = "idle")
                 => (outcome' = "returned" /\ finalMessages' = 0)]_vars

\* the callback was asked after maxIterations tool-call responses and said no
C17_Witness ==
    /\ pc = "idle"
    /\ outcome = "returned"
    /\ "onMaxIterations" \in callbacks
    /\ "onFinalMessage" \in callbacks
    /\ AllResponsesToolCalls
    /\ runRequests = maxIterations
    /\ nContinues = 0
    /\ LastTurn.role = "tool"
    /\ finalMessages = 0

\* C18: the backend calls of a run, the failed and retried ones among them,
\* number at most maxIterations for the start of the run and for each continue
\* the max-iterations callback has answered; with no such callback wired
\* nothing continues a run: it makes at most maxIterations calls, and its loop
\* returns when the limit is reached
LimitReachedUnasked ==
    /\ pc = "loopTop"
    /\ runRequests = maxIterations
    /\ "onMaxIterations" \notin callbacks
    /\ ~isInterrupted
ReturnsAtLimit == LimitReachedUnasked => (pc' = "idle" /\ outcome' = "returned")
C18_CallsBounded ==
    /\ [](runRequests <= maxIterations * (1 + nContinues))
    /\ []("onMaxIterations" \notin callbacks =>
             (nContinues = 0 /\ runRequests <= maxIterations))
    /\ [][ReturnsAtLimit /\ requestCount' - requestCount \in {0, 1}]_vars

\* a run at its bound after a continue, its last call failed and retried
C18_Witness ==
    /\ pc = "awaitMaxIterations"
    /\ nContinues = 1
    /\ runRequests = maxIterations * 2
    /\ lastAnswer = "error"
    /\ "onError" \in callbacks

\* the two failures of a tool call that are no rejection: its arguments do not
\* parse, or its execution raises
AtUnparsableCall ==
    /\ pc = "toolLoop"
    /\ idx <= Len(toolCalls)
    /\ ~isInterrupted
    /\ ~toolCalls[idx].parses
ExecutionRaises == pc = "awaitTool" /\ pc' # "awaitTool" /\ lastAnswer' = "execution error"
\* the failed result is recorded as the tool Turn of the current call and the
\* run goes on with what follows that call
RecordsFailureAndGoesOn(result) ==
    /\ ~userRejected(result)
    /\ messages' = Append(messages, ToolTurn(toolCalls[idx].id, result))
    /\ pc' = "toolLoop"
    /\ idx' = idx + 1
    /\ toolCalls' = toolCalls
    /\ outcome' = "running"

\* C19: a tool call whose arguments cannot be parsed, or whose execution
\* raises, gets a failed result as its tool Turn; the run asks no error
\* callback, does not raise, and goes on to the next tool call or, after the
\* last one, to the next backend call
C19_ToolFailureIsAResult ==
    [][/\ AtUnparsableCall => RecordsFailureAndGoesOn("arguments truncated")
       /\ ExecutionRaises => RecordsFailureAndGoesOn("execution error")]_vars

\* the execution of a tool call has raised and the run is at its for-loop
C19_Witness ==
    /\ pc = "toolLoop"
    /\ outcome = "running"
    /\ lastAnswer = "execution error"
    /\ idx >= 2
    /\ LastTurn = ToolTurn(toolCalls[idx - 1].id, "execution error")
    /\ "onError" \in callbacks

\* the for-loop moves on from the call at position idx
MovesToNextCall == InToolPhase /\ idx' = idx + 1
\* the step appends the tool Turn of the call at position idx
AppendsToolTurnOfCall ==
    /\ Len(messages') = Len(messages) + 1
    /\ SubSeq(messages', 1, Len(messages)) = messages
    /\ messages'[Len(messages')].role = "tool"
    /\ messages'[Len(messages')].tool_call_id = toolCalls[idx].id

\* C20: the tool calls of an assistant Turn are worked on one at a time and in
\* order: while the call at position idx is at its approval or its execution,
\* or is the next to start, the log holds the tool Turns of the positions
\* before idx, in order, and no other; and the only step that moves on from
\* position idx is the one that appends its tool Turn
C20_OneCallAtATime ==
    /\ [](InToolPhase =>
            \E i \in Indices :
               /\ InProgress(i)
               /\ ToolIdsAfter(i) = SubSeq(IdsOf(toolCalls), 1, idx - 1))
    /\ [][MovesToNextCall => AppendsToolTurnOfCall]_vars

\* the second call of a response is executing, the tool Turn of the first
\* one in the log
C20_Witness ==
    /\ pc = "awaitTool"
    /\ idx = 2
    /\ \E i \in Indices : InProgress(i) /\ ToolIdsAfter(i) = <<toolCalls[1].id>>
    /\ LastTurn = ToolTurn(toolCalls[1].id, "success")

\* no interrupt() has been called since the current run started
Undisturbed == pc # "idle" /\ runInterrupts = 0
\* the for-loop is about to take the tool call at position idx
AtNextToolCall == pc = "toolLoop" /\ idx <= Len(toolCalls)
\* the call is taken up: it goes to its approval or execution, or its tool
\* Turn is appended
TakesUpToolCall == pc' \in {"awaitApproval", "awaitTool"} \/ messages' # messages

FinalMessageFires == finalMessages' = finalMessages + 1

C23_SystemTurnFirst ==
    /\ Len(messages) >= 1
    /\ IsSystemTurn(messages[1])

\* after a run, an interrupt(), a switch, a setModel() and a clearHistory()
C23_Witness ==
    /\ nRuns = 1
    /\ nInterrupts = 1
    /\ nSwitches = 1
    /\ swPc = "idle"
    /\ pc = "idle"
    /\ model = "custom"
    /\ Len(messages) = 3
    /\ \A j \in Indices : IsSystemTurn(messages[j])

\* C24: clearHistory() is idempotent: on every log, what a second
\* clearHistory() leaves is what the first one has left; and the log a
\* clearHistory() step leaves is one that clearHistory() does not change
C24_ClearTwiceIsClearOnce ==
    /\ [](cleared(cleared(messages)) = cleared(messages))
    /\ [][cleared(messages') = messages']_vars

\* clearHistory() has removed the Turns of a conversation and kept three
\* system Turns
C24_Witness ==
    /\ Len(messages) = 3
    /\ \A j \in Indices : IsSystemTurn(messages[j])
    /\ messages[1] = SystemPrompt

\* C25 as stated: once sessionAutoApprove is true it stays true under every
\* operation on the Agent
C25_AutoApproveStaysOn == [][sessionAutoApprove => sessionAutoApprove']_vars

\* a step that changes sessionAutoApprove and nothing else, between two steps
\* of a run or while no run is active: setSessionAutoApprove()
OnlyAutoApproveChanges ==
    /\ HostMayCall
    /\ UNCHANGED <<messages, isInterrupted, currentAbortController, requestCount,
                   callbacks, readFiles, otherVars, runVars, histVars>>

\* C25, amended: sessionAutoApprove, once true, is lowered by no operation but
\* setSessionAutoApprove(false): runs, approvals, interrupt() and
\* clearHistory() leave it true
C25_OnlyTheSetterLowers ==
    [][(sessionAutoApprove /\ ~sessionAutoApprove') => OnlyAutoApproveChanges]_vars

\* the session-wide approval is on after a run whose Turns clearHistory() has
\* removed
C25_Witness ==
    /\ sessionAutoApprove
    /\ pc = "idle"
    /\ nRuns = 1
    /\ outcome = "returned"
    /\ lastAnswer = "success"
    /\ \A j \in Indices : IsSystemTurn(messages[j])

\* Agent.create() has ended
CreateEnded == crPc \in {"returned", "raised"}
AtFallback == crPc \in {"awaitFallbackCreate", "awaitFallbackInitialize"}

\* C26: when the configured backend fails to initialize at construction and
\* is not groq, one fallback initialization is attempted, with groq and the
\* default model of groq; construction raises, returning no Agent, when that
\* one fails too and when the backend that failed is groq itself, and it
\* returns an Agent in the other cases
C26_OneFallback ==
    /\ nFallbacks <= 1
    /\ AtFallback => /\ currentProviderType = "groq"
                     /\ model = DEFAULT_MODELS["groq"]
                     /\ configured # "groq"
                     /\ nFailed = 1
                     /\ nFallbacks = 1
    /\ (CreateEnded /\ nFailed >= 1) => nFallbacks = (IF configured = "groq" THEN 0 ELSE 1)
    /\ crPc = "raised" <=> (CreateEnded /\ nFailed = (IF configured = "groq" THEN 1 ELSE 2))
    /\ crPc = "returned" <=> (CreateEnded /\ nFailed + nFallbacks \in {0, 2})

\* construction has raised after the fallback to groq failed as well
C26_Witness ==
    /\ crPc = "raised"
    /\ configured = "openai"
    /\ currentProviderType = "groq"
    /\ nFailed = 2
    /\ nFallbacks = 1

\* the Agent is built: the constructor has returned
Built == crPc # "start"

\* C29: immediately after an Agent is constructed, in every environment, its
\* log contains exactly one Turn and that Turn has role system
C29_OneSystemTurn ==
    Built => (Len(messages) = 1 /\ messages[1].role = "system")

\* C29, amended: after construction the log holds the system prompt first
\* and, when a project context file could be read, the project context as a
\* second system Turn; nothing else, and initializing the backend adds none
C29_PromptThenContext ==
    /\ Built => messages \in {<<SystemPrompt>>, <<SystemPrompt, ProjectContext>>}
    /\ ~Built => messages = <<>>

\* an Agent returned by Agent.create() with two system Turns in its log
C29_Witness ==
    /\ crPc = "returned"
    /\ Len(messages) = 2
    /\ \A i \in 1..2 : messages[i].role = "system"

\* s is t with Turns left out
RECURSIVE IsSubSeq(_, _)
IsSubSeq(s, t) ==
    IF s = <<>> THEN TRUE
    ELSE IF t = <<>> THEN FALSE
    ELSE IF Head(s) = Head(t) THEN IsSubSeq(Tail(s), Tail(t))
    ELSE IsSubSeq(s, Tail(t))

\* the step leaves every Turn it keeps as it was: it appends or it removes
TurnsKept ==
    \/ /\ Len(messages') >= Len(messages)
       /\ SubSeq(messages', 1, Len(messages)) = messages
    \/ IsSubSeq(messages', messages)

\* the step replaces the content of the first default prompt, nothing else
PromptRewritten ==
    /\ Len(messages') = Len(messages)
    /\ \E i \in 1..Len(messages) :
          /\ IsDefaultPrompt(messages[i])
          /\ \A k \in 1..(i - 1) : ~IsDefaultPrompt(messages[k])
          /\ messages' = [messages EXCEPT ![i].content = messages'[i].content]

\* the step is the return of switchProvider()
SwitchHasReturned == swPc # "idle" /\ swPc' = "idle" /\ swOutcome' = "returned"

\* the step is a setModel(): the model and the model on file for the backend
\* in use are assigned, no run, switch or interrupt moves
ModelWasSet ==
    /\ swPc = "idle" /\ swPc' = "idle"
    /\ model' = configDefaultModel'[currentProviderType]
    /\ UNCHANGED <<provider, currentProviderType, pc, iteration, isInterrupted, nRuns,
                   nInterrupts, nSwitches, swOutcome>>

\* C27: no operation changes the role or content of a Turn already in the
\* log, except that a backend switch rewrites the content of the
\* system-prompt Turn in place; runs, interrupt, model changes without a
\* backend switch and failed switches leave every existing Turn unchanged
C27_OnlySwitchRewrites ==
    [][ TurnsKept \/ (PromptRewritten /\ SwitchHasReturned) ]_vars

\* C27, amended: a Turn in the log changes only when switchProvider()
\* returns or setModel() is called, and then only the content of the first
\* system-prompt Turn is replaced; runs, interrupt, clearHistory and
\* switches that raise leave every Turn they keep unchanged
C27_SwitchAndSetModelRewrite ==
    [][ TurnsKept \/ (PromptRewritten /\ (SwitchHasReturned \/ ModelWasSet)) ]_vars

\* a log whose prompt was rewritten by setModel() alone, a run behind it
C27_Witness ==
    /\ nSwitches = 0
    /\ nRuns = 1
    /\ Len(messages) > 2
    /\ messages[1].role = "system"
    /\ messages[1].content = PromptText("custom", displayName["groq"])
    /\ messages[2] = ProjectContext

\* the id of the only call of the first response of the current run
FirstCallOfRun == <<requestCount - runRequests + 1, 1>>

\* the first response of the run held one tool call, that call has succeeded,
\* and the call of the backend that followed is still open
AfterOneSuccessfulCall ==
    /\ pc = "awaitChat"
    /\ lastAnswer = "success"
    /\ Len(messages) = LastUser + 2
    /\ messages[LastUser + 1] = Turn("assistant", "", <<FirstCallOfRun>>, NoId)
    /\ messages[LastUser + 2] = ToolTurn(FirstCallOfRun, "success")
SecondResponseIsText == AfterOneSuccessfulCall /\ pc' # "awaitChat" /\ lastAnswer' = "text"

\* C28: in a run where the first backend response holds exactly one
\* approval-required tool call that is approved and succeeds, and the second
\* backend response is plain text, exactly two backend calls are made and
\* exactly 4 Turns are appended to the log after the user Turn
C28_FourTurnsAppended ==
    [][SecondResponseIsText =>
          /\ runRequests' = 2
          /\ Len(messages') = LastUser + 4]_vars

\* C28, amended: in such a run (whatever the tool of the one call) exactly
\* two backend calls are made and exactly 3 Turns are appended after the
\* user Turn: the assistant Turn with the call, the tool Turn with the
\* result, and the assistant Turn with the text; then the run returns
C28_ThreeTurnsAppended ==
    [][SecondResponseIsText =>
          /\ runRequests = 2 /\ runRequests' = 2
          /\ messages' = Append(messages, FinalTurn)
          /\ Len(messages') = LastUser + 3
          /\ pc' = "idle"
          /\ outcome' = "returned"]_vars

\* the run has returned after an approved call, its success and the text
C28_Witness ==
    /\ pc = "idle"
    /\ outcome = "returned"
    /\ lastAnswer = "text"
    /\ runRequests = 2
    /\ sessionAutoApprove
    /\ "onToolApproval" \in callbacks
    /\ Len(messages) = LastUser + 3
    /\ messages[LastUser + 1] = Turn("assistant", "", <<FirstCallOfRun>>, NoId)
    /\ messages[LastUser + 2] = ToolTurn(FirstCallOfRun, "success")
    /\ messages[LastUser + 3] = FinalTurn

\* C30: for every MCP server name s and tool name t, parsing the name under
\* which the tool is registered, mcp_<s>_<t>, yields server s and tool t, so
\* a call by that name is routed to the server and tool that registered it
C30_RegisteredNameParsesBack ==
    (schemaName # NoName /\ parsedName # NoParse) =>
        parsedName = Parsed(mcpServerName, mcpToolName)

\* the step in which the user answers the approval request of a call of an
\* approval-required tool that is not dangerous, and approves it
ApprovesGatedCall ==
    /\ pc = "awaitApproval"
    /\ requiresApprovalTool(toolCalls[idx])
    /\ ~isDangerousTool(toolCalls[idx])
    /\ pc' = "awaitTool"
    /\ approvalResult' = "approved"

\* C35: sessionAutoApprove changes from false to true during a run only when
\* the user approved a call of an approval-required, non-dangerous tool
\* (approved = true together with autoApproveSession = true); a rejected
\* call never turns it on
C35_OnlyAnApprovalTurnsOn ==
    [][(~sessionAutoApprove /\ sessionAutoApprove') => ApprovesGatedCall]_vars

\* C36: when switchProvider(P, m) returns without raising, the backend of
\* the session is P; it is never a backend that is neither the requested
\* one nor the one in use before the switch
C36_ReturnsOnRequested ==
    (swPc = "idle" /\ swOutcome = "returned") =>
        /\ currentProviderType = before.requested
        /\ provider = before.requested

\* the step appends the tool Turn of the current call
AppendsItsToolTurn ==
    /\ pc \in {"toolLoop", "awaitApproval", "awaitTool"}
    /\ Len(messages') > Len(messages)
    /\ messages'[Len(messages) + 1].role = "tool"
    /\ messages'[Len(messages) + 1].tool_call_id = toolCalls[idx].id
ToolStartNotified == \E k \in 1..Len(toolNotes') : toolNotes'[k] = "start"

\* C37: every tool-start notification is followed by exactly one tool-end
\* notification for the same tool before the tool Turn of that call is
\* appended, for every outcome of the call (precondition failure, rejection,
\* interruption, success, tool execution raising)
C37_StartIsEnded ==
    [][(AppendsItsToolTurn /\ ToolStartNotified) => toolNotes' = <<"start", "end">>]_vars

----------------------------------------------------------------------------
(* webSearch()                                                             *)

\* the place of a provider in the order of the cascade
Rank(p) ==
    IF p = preferredProvider THEN 0
    ELSE IF p = "google" THEN 1 ELSE IF p = "bing" THEN 2 ELSE 3
CalledBefore(q, i) == \E k \in 1..(i - 1) : called[k] = q
AttemptedProviders == [i \in 1..Len(attempts) |-> attempts[i].provider]
\* the call passed the validation of the query
SearchBegan == sePc # "idle" /\ searchResponse.provider # "None"

C32_StrictOneProvider ==
    (fallbackStrategy = "strict" /\ SearchBegan) =>
        /\ Len(called) <= 1
        /\ (sePc = "returned" /\ Len(called) = 1) =>
              /\ Len(attempts) = 1
              /\ attempts[1].provider = called[1]
              /\ searchResponse.provider = called[1]
              /\ searchResponse.success = (attempts[1].status = "success")
              /\ searchResponse.results = attempts[1].results
              /\ searchResponse.attempts = attempts
        /\ (needsKey(preferredProvider) /\ ~isConfigured(preferredProvider)) =>
              /\ sePc = "returned"
              /\ called = <<>>
              /\ ~searchResponse.success
              /\ searchResponse.provider = preferredProvider
              /\ searchResponse.error = "not configured"
        /\ (preferredProvider \in SearchProviderNames /\ Len(called) = 1) =>
              called[1] = preferredProvider

\* C32 witness: strict with Google configured and preferred, Google answered
\* with no results and that success was returned, Bing configured and unused
C32_Witness ==
    /\ fallbackStrategy = "strict"
    /\ sePc = "returned"
    /\ preferredProvider = "google"
    /\ googleOK
    /\ bingOK
    /\ called = <<"google">>
    /\ searchResponse.success
    /\ searchResponse.results = 0

\* C32 witness of the second half: strict, Bing preferred without a key
C32_WitnessNotConfigured ==
    /\ fallbackStrategy = "strict"
    /\ sePc = "returned"
    /\ preferredProvider = "bing"
    /\ ~bingOK
    /\ searchResponse.error = "not configured"
    /\ called = <<>>

----------------------------------------------------------------------------
(* checkRateLimit()                                                        *)

\* RATE_LIMIT of a key
LimitOf(k) ==
    IF k = "global" THEN MAX_REQUESTS_PER_MINUTE ELSE MAX_REQUESTS_PER_DOMAIN_PER_MINUTE

\* C33: of the requests allowed from the first request of a window to one
\* minute after it there are at most 10 in all and at most 3 of one domain.
C33_AtMostTenAndThree ==
    \A k \in RateKeys : MapGet(withinMinute, k, 0) + MapGet(atMinute, k, 0) <= LimitOf(k)

\* the same with the end of the minute left out: of the requests allowed less
\* than one minute after the first of a window there are at most 10 and 3
C33_BeforeTheMinuteEnds ==
    \A k \in RateKeys : MapGet(withinMinute, k, 0) <= LimitOf(k)

\* both limits are reached and enforced before the minute ends
C33_LimitsReached ==
    /\ MapGet(withinMinute, "global", 0) = MAX_REQUESTS_PER_MINUTE
    /\ MapGet(withinMinute, "a.example", 0) = MAX_REQUESTS_PER_DOMAIN_PER_MINUTE
    /\ rateResult = "global limit"

----------------------------------------------------------------------------
(* ConfigManager.addMCPServer()                                            *)

\* the step is a call of addMCPServer() that returned
AddSucceeds == nCfgOps' = nCfgOps + 1 /\ cfgOp'.op = "add" /\ ~cfgOp'.threw

----------------------------------------------------------------------------
(* MCPErrorHandler.attemptReconnection()                                   *)

\* C38: of the calls of reconnectToServer() for one server since its retry
\* counter was last reset there are at most maxRetries, also when calls of
\* attemptReconnection() overlap.
C38_AtMostThreeAttempts ==
    \A s \in ReconnectServers : MapGet(attemptsMade, s, 0) <= maxRetries

\* the same for calls of attemptReconnection() that never overlap
C38_OneAtATime ==
    ~overlapped => \A s \in ReconnectServers : MapGet(attemptsMade, s, 0) <= maxRetries

\* without overlap the fourth call for a server returned false and made no
\* attempt
C38_FourthRefused ==
    /\ ~overlapped
    /\ MapGet(attemptsMade, "server1", 0) = maxRetries
    /\ Len(rcCalls) >= 4
    /\ rcCalls[4].pc = "returned"
    /\ rcCalls[4].serverName = "server1"
    /\ rcCalls[4].currentAttempts = maxRetries
    /\ rcCalls[4].result = "false"

----------------------------------------------------------------------------
(* MCPClientManager.refreshServers()                                       *)

\* the step in which refreshServers() returns, its configuration unchanged
RefreshCompletes == rfPc # "returned" /\ rfPc' = "returned" /\ ~rfChanged'

\* what holds of clients cl and the configuration C
Refreshed(cl, C) ==
    \A n \in ServerNames :
        /\ configOf(C, n).state \in {"absent", "disabled"} => clientOf(cl, n).state # "connected"
        /\ configOf(C, n).state = "enabled" => clientOf(cl, n).state \in {"connected", "failed"}

\* C39: when refreshServers() returns and its configuration C did not change
\* during the call, no server absent from C or disabled in C is connected and
\* every enabled server of C has an entry, connected or with its error.
C39_RefreshedAtReturn ==
    [][RefreshCompletes => Refreshed(clients', currentServers')]_vars

\* the same when initializeClients() is not running during the call
C39_RefreshedAlone ==
    [][(RefreshCompletes /\ ~rfOverlapped') => Refreshed(clients', currentServers')]_vars

\* a second refreshServers() has returned after closing the client of a
\* server that was removed from the configuration and connecting another
C39_RemovedAndConnected ==
    /\ rfPc = "returned"
    /\ nRefreshes = 2
    /\ ~rfOverlapped
    /\ ~rfChanged
    /\ "alpha" \in connectedServerNames
    /\ "alpha" \notin DOMAIN currentServers
    /\ "alpha" \notin DOMAIN clients
    /\ configOf(currentServers, "beta").state = "enabled"
    /\ clientOf(clients, "beta").state = "connected"

====
